---- MODULE Spec2Model ----
(***************************************************************************)
(* Verification model of mtp_audioplayer.                                  *)
(*                                                                         *)
(* SpecClip : priority scheduler (priority_scheduler.rs), clip queue       *)
(*            (clip_queue.rs) and clip player (clip_player.rs).            *)
(* SpecSM   : the executor of one state machine (state_machine.rs) with    *)
(*            goto and stop calls from its own action and from outside.    *)
(* SpecTag  : one tag of the tag dispatcher (TagContext in app_config.rs)  *)
(*            with its watch channel, the futures of wait_value, and the   *)
(*            SetTag requests with the acknowledgment handlers of the      *)
(*            ingress loop (bin/mtp_audioplayer/main.rs).                  *)
(* SpecAct  : one future of ParallelAction::run and one of                 *)
(*            SequenceAction::run (actions/parallel.rs, sequence.rs), each *)
(*            with NChildren children that complete with Ok or Err.        *)
(* SpecAlarm: one filter of the alarm dispatcher (AlarmContext in          *)
(*            app_config.rs) with notifications, ignore and restore calls  *)
(*            and the IgnoreAlarms / RestoreAlarms actions, and one future *)
(*            of WaitAlarmAction::run (actions/wait_alarm.rs).             *)
(* SpecRun  : StateMachineContext::run_all over NMachines machines and the *)
(*            main loop that awaits it.                                    *)
(* SpecClipFair : SpecClip with weak fairness of the polls of woken tasks  *)
(*            and of the audio thread, for the progress properties.        *)
(* SpecTagAdd : SpecTag with add_tag callable at any time.                 *)
(* SpecAct also holds one future of RepeatAction::run (actions/repeat.rs). *)
(* SpecFilter : BoolOp::to_string and parse_filter (alarm_filter.rs) on    *)
(*            filter trees built from bounded criteria.                    *)
(* SpecEffect : SetTagAction and AlarmFunctionAction with the poll and the *)
(*            drop of the futures their run() returns.                     *)
(* SpecWaitTag : one future of WaitTagAction::run with condition Changed.  *)
(* SpecLock : the lock and unlock steps of the mutexes of the state        *)
(*            machines, the alarm filters and the tags, each executor and  *)
(*            the callers from outside taken as threads of their own.      *)
(*                                                                         *)
(* Tasks are futures polled by one cooperative executor (the daemon runs   *)
(* everything inside the main task): one poll of a future is one step and  *)
(* runs to the next suspension point.  The audio render callback runs on   *)
(* its own thread and synchronises through the PlaybackControl mutex; a    *)
(* task that blocks on the PlaybackControl condition variable inside       *)
(* start_clip blocks the executor thread until the render thread acts.     *)
(***************************************************************************)
EXTENDS Integers, Sequences, FiniteSets, TLC

\* ---------------------------------------------------------------- bounds
\* Number of ClipQueue::play invocations
MaxPlays == 3
\* Priorities are 1..MaxPrio
MaxPrio == 2
\* Longest clip, in samples
MaxClipLen == 3

\* Length of the output buffer handed to one render callback, in samples
BufLen == 2

\* Longest value of a string criterion of a filter, in characters
MaxStrLen == 1
\* Number of Not, And, Or nodes of a filter tree
MaxOps == 2

Plays == 1..MaxPlays
Prios == 1..MaxPrio
ClipLens == {1, MaxClipLen}
NoPlay == 0

\* Number of states of the state machine
NStates == 2
\* Events the rate limiter allows in one window
LimitN == 2
\* goto and stop calls in one behaviour
MaxGoto == 3

\* Values a tag takes are 1..MaxVal
MaxVal == 2
\* Futures returned by wait_value
MaxWaiters == 1
\* Values sent on the watch channel of the tag in one behaviour
MaxChanges == 3
\* SetTag requests
MaxSetTag == 2

\* Children of a ParallelAction and of a SequenceAction
NChildren == 3
Children == 1..NChildren

\* Alarm ids are 1..MaxAlarms
MaxAlarms == 2
AlarmIds == 1..MaxAlarms
\* Alarm priorities are 1..MaxAlarmPrio
MaxAlarmPrio == 2
\* the configured filter is `Priority <= 1`
FilterPriority == 1
\* AlarmState::Raised
Raised == 1

\* The count of a RepeatAction is None or Some(n) with n in 1..MaxRepeat
MaxRepeat == 2
\* Iterations of a RepeatAction without count in one run
MaxRuns == 3

\* State machines of the StateMachineContext
NMachines == 3
Machines == 1..NMachines
\* Steps the running action of one machine can make
MaxSteps == 2

\* State machines whose mutexes SpecLock follows
MaxLockMachines == 2
LockMachines == 1..MaxLockMachines

\* Option::None for a state index and for a tag value
None == -1
\* the initial value "" of the watch channel of a tag
EmptyString == 0
TagVals == 1..MaxVal
Waiters == 1..MaxWaiters
SetTags == 1..MaxSetTag
\* Option::None for running_action; an action future is [id, state]
NoAction == [id |-> 0, state |-> None]
StateIdx == 0..(NStates - 1)

VARIABLES
    \* ---- priority_scheduler.rs
    queue,      \* Scheduler.queue: sequence of TokenState [id, priority]
    notify,     \* TokenState.notify: permit stored in the token's Notify, by token id
    nextId,     \* NEXT_ID
    \* ---- clip_player.rs
    ctl,        \* PlaybackControl: [state, seqno, samples, waker]
    nextSeq,    \* NEXT_SEQ_NO
    curSeqno,   \* current_seqno of the render callback
    pos,        \* pos of the render callback
    \* ---- clip_queue.rs: one ClipQueue::play future per element of Plays
    pc,         \* position of the play future
    tok,        \* id of the token the call created (0 = none)
    prio,       \* priority argument
    tmo,        \* timeout argument is Some
    clip,       \* length of the samples argument
    seq,        \* seqno of the PlaybackFuture the call holds (0 = none)
    woken,      \* the task's waker was invoked by PlaybackControl::change_state
    \* ---- history
    grant,      \* for each call: what get_token returned ("none", "active", "stale")
    preempted,  \* calls whose token was pushed away by a higher priority while their clip was playing
    lastDrop,   \* what the last step dropped: the future of the playing clip ("own"), of another clip ("other"), "none"
    \* ---- state_machine.rs
    sm,         \* StateMachine: [active (active_state), restart, changed (permit of current_changed)]
    ex,         \* locals of StateMachine::run: [pc, running_action, running_state]
    live,       \* the action futures created by run that are neither completed nor dropped
    nextInst,   \* number of the next action future
    limUsed,    \* change_limit: events counted in the current window
    nGoto,      \* goto and stop calls so far
    dropped,    \* history: the action future the last evaluation replaced
    lastGoto,   \* history: where the last goto came from ("none", "action", "outside", "stop")
    calls,      \* history: the results of the change_limit.count() calls of the last evaluation
    burst,      \* history: goto and stop calls since the last evaluation, [n, mid, last]
    handled,    \* history: the calls the last evaluation found, [n, mid, last]
    \* ---- app_config.rs: TagContext, one tag
    tag,        \* TagObservable: [state, value, version] (value and version of the watch channel)
    wait,       \* the futures of wait_value: [pc, value, seen (version of its receiver), result]
    callVer,    \* history: version of the channel when wait_value was called
    setReq,     \* the futures of async_set_tag: [pc, done (oneshot), result]
    egress,     \* tag_send_tx / pipe_send_rx: queued TagSetRequest
    handlers,   \* handler_list of the ingress loop: acknowledgment handlers
    timedOut,   \* history: SetTag requests whose 500 ms timeout elapsed
    acked,      \* history: the requests whose handlers the last NotifyWriteTag message removed
    wtg,        \* the future of a WaitTagAction with condition Changed
    \* ---- actions/parallel.rs, actions/sequence.rs
    par,        \* one future of ParallelAction::run: [pc, child, result]
    firstErr,   \* history: the child of the parallel action that failed first (0 = none)
    sqn,        \* one future of SequenceAction::run: [pc, child, result]
    \* ---- actions/repeat.rs
    rep,        \* one future of RepeatAction::run: [pc, count, started, calls, result]
    repUsed,    \* limit (the clone of repeat_limit): events counted in the current window
    \* ---- app_config.rs: StateMachineContext::run_all
    mach,       \* the futures of StateMachine::run held by try_join_all: [st, steps]
    runAll,     \* the future of run_all and the main loop: [pc, result]
    \* ---- app_config.rs: AlarmContext, one filter
    flt,        \* AlarmFilterState: [matching, ignore, ignore_permanent]
    sent,       \* value of the watch channel observers of the filter
    latest,     \* history: for each alarm id, its latest notification with state # 128
    released,   \* history: alarm ids that a notification removed from ignore
    lastOp,     \* history: the last operation on the filter, [op, permanent, tags written, state of the alarm]
    wal,        \* the future of WaitAlarmAction::run: [pc, cond, prev, unseen, obs, via]
    ftree,      \* alarm_filter: the filter tree (BoolOp)
    ftext,      \* its to_string
    fparsed,    \* the result of parse_filter on the text
    fops,       \* number of Not, And, Or nodes of the tree
    fpc,        \* "new", "tree", "text", "parsed"
    \* ---- the mutexes of StateMachine, AlarmContext and TagContext
    th          \* per thread of control: [phase, script, held]

clipVars == <<queue, notify, nextId, ctl, nextSeq, curSeqno, pos,
              pc, tok, prio, tmo, clip, seq, woken, grant, preempted, lastDrop>>

smVars == <<sm, ex, live, nextInst, limUsed, nGoto, dropped, lastGoto, calls,
            burst, handled>>

tagVars == <<tag, wait, callVer, setReq, egress, handlers, timedOut, acked, wtg>>

actVars == <<par, firstErr, sqn, rep, repUsed>>

almVars == <<flt, sent, latest, released, lastOp, wal>>

runVars == <<mach, runAll>>

parseVars == <<ftree, ftext, fparsed, fops, fpc>>

lockVars == <<th>>

vars == <<clipVars, smVars, tagVars, actVars, almVars, runVars, parseVars, lockVars>>

\* ------------------------------------------------- priority_scheduler.rs

\* find_id: index of the token in the queue, 0 for None
find_id(states, id) ==
    IF \E i \in 1..Len(states) : states[i].id = id
    THEN CHOOSE i \in 1..Len(states) :
            /\ states[i].id = id
            /\ \A j \in 1..(i-1) : states[j].id # id
    ELSE 0

RemoveAt(s, i) == SubSeq(s, 1, i-1) \o SubSeq(s, i+1, Len(s))

\* a sort that is not stable: the new element goes before its equals
RECURSIVE InsertBeforeEqual(_, _)
InsertBeforeEqual(sorted, s) ==
    IF sorted = <<>> THEN <<s>>
    ELSE IF Head(sorted).priority > s.priority
         THEN <<Head(sorted)>> \o InsertBeforeEqual(Tail(sorted), s)
         ELSE <<s>> \o sorted

\* the comparison of queue.sort_by: s stays behind every element whose
\* priority is not lower (the sort is stable)
RECURSIVE InsertStable(_, _)
InsertStable(sorted, s) ==
    IF sorted = <<>> THEN <<s>>
    ELSE IF Head(sorted).priority >= s.priority
         THEN <<Head(sorted)>> \o InsertStable(Tail(sorted), s)
         ELSE <<s>> \o sorted

\* queue.sort_by(|s1, s2| s2.priority.cmp(&s1.priority))
RECURSIVE sort_by_priority(_)
sort_by_priority(q) ==
    IF q = <<>> THEN <<>>
    ELSE InsertStable(sort_by_priority(SubSeq(q, 1, Len(q)-1)), q[Len(q)])

\* Scheduler::is_active indexes queue[0]: it panics when the queue is empty
is_active_panics(q) == Len(q) = 0

\* Scheduler::is_active, when it returns
is_active(q, id) == q[1].id = id

\* Scheduler::is_waiting
is_waiting(q, id) == find_id(q, id) > 1

\* Scheduler::is_released
is_released(q, id) == find_id(q, id) = 0

\* the guard of the removal in get_token_with_notify
PushedAway(q, id) == q[1].id = id /\ Len(q) >= 2

\* Scheduler::get_token_with_notify: queue and notify after the call
get_token_with_notify(q, ntf, id, priority) ==
    LET sorted == sort_by_priority(Append(q, [id |-> id, priority |-> priority]))
        ntf1 == [ntf EXCEPT ![id] = FALSE]
    IN  IF PushedAway(sorted, id)
        THEN [queue |-> RemoveAt(sorted, 2),
              notify |-> [ntf1 EXCEPT ![sorted[2].id] = TRUE]]
        ELSE [queue |-> sorted, notify |-> ntf1]

\* a release that fires the Notify of the head when the id is not in the queue
release_absent_wakes(q, ntf, id) ==
    LET index == find_id(q, id) IN
    IF index = 0
    THEN [queue |-> q, notify |-> IF q # <<>> THEN [ntf EXCEPT ![q[1].id] = TRUE] ELSE ntf]
    ELSE LET q1 == RemoveAt(q, index)
             ntf1 == [ntf EXCEPT ![id] = TRUE]
         IN  IF index = 1 /\ q1 # <<>>
             THEN [queue |-> q1, notify |-> [ntf1 EXCEPT ![q1[1].id] = TRUE]]
             ELSE [queue |-> q1, notify |-> ntf1]

\* a release that does not fire the Notify of the new head
release_head_asleep(q, ntf, id) ==
    LET index == find_id(q, id) IN
    IF index = 0 THEN [queue |-> q, notify |-> ntf]
    ELSE [queue |-> RemoveAt(q, index), notify |-> [ntf EXCEPT ![id] = TRUE]]

\* a release that always fires the Notify of the head after a removal
release_wakes_head(q, ntf, id) ==
    LET index == find_id(q, id) IN
    IF index = 0 THEN [queue |-> q, notify |-> ntf]
    ELSE LET q1 == RemoveAt(q, index)
             ntf1 == [ntf EXCEPT ![id] = TRUE]
         IN  IF q1 # <<>>
             THEN [queue |-> q1, notify |-> [ntf1 EXCEPT ![q1[1].id] = TRUE]]
             ELSE [queue |-> q1, notify |-> ntf1]

\* Scheduler::release (also Token::drop): queue and notify after the call
release(q, ntf, id) ==
    LET index == find_id(q, id) IN
    IF index = 0 THEN [queue |-> q, notify |-> ntf]
    ELSE LET q1 == RemoveAt(q, index)
             ntf1 == [ntf EXCEPT ![id] = TRUE]
         IN  IF index = 1 /\ q1 # <<>>
             THEN [queue |-> q1, notify |-> [ntf1 EXCEPT ![q1[1].id] = TRUE]]
             ELSE [queue |-> q1, notify |-> ntf1]

\* ------------------------------------------------------- clip_player.rs

\* PlaybackControl::change_state: the state is replaced, the registered
\* waker is taken
change_state(c, state, seqno, samples) ==
    [state |-> state, seqno |-> seqno, samples |-> samples, waker |-> NoPlay]

\* a change_state that leaves the registered waker alone
NoWake(c, w) == w

\* the task woken by change_state
Wake(c, w) == IF c.waker # NoPlay THEN [w EXCEPT ![c.waker] = TRUE] ELSE w

\* a start_clip that replaces the playing clip without the Cancel handshake
start_clip_direct(c, w, seqno, samples) ==
    CASE c.state \in {"Playing", "Ready"} ->
            [ctl |-> change_state(c, "Playing", seqno, samples), woken |-> Wake(c, w), blocked |-> FALSE]
      [] OTHER ->
            [ctl |-> c, woken |-> w, blocked |-> TRUE]

\* a start_clip that waits for the playing clip to end instead of cancelling it
start_clip_patient(c, w, seqno, samples) ==
    CASE c.state \in {"Setup", "Cancel", "Playing"} ->
            [ctl |-> c, woken |-> w, blocked |-> TRUE]
      [] c.state = "Ready" ->
            [ctl |-> change_state(c, "Playing", seqno, samples), woken |-> Wake(c, w), blocked |-> FALSE]

\* the loop of ClipPlayer::start_clip, up to the point where it either
\* blocks on the condition variable or has entered Playing
start_clip(c, w, seqno, samples) ==
    CASE c.state = "Playing" ->
            \* Playing -> Cancel, then wait for the render thread
            [ctl |-> change_state(c, "Cancel", 0, 0), woken |-> Wake(c, w), blocked |-> TRUE]
      [] c.state \in {"Setup", "Cancel"} ->
            [ctl |-> c, woken |-> w, blocked |-> TRUE]
      [] c.state = "Ready" ->
            [ctl |-> change_state(c, "Playing", seqno, samples), woken |-> Wake(c, w), blocked |-> FALSE]

\* PlaybackFuture::poll: Pending exactly when its own seqno is playing
FuturePending(c, seqno) == c.state = "Playing" /\ c.seqno = seqno

\* a drop of the completion future that cancels whatever clip is playing
drop_future_any(c, w, seqno) ==
    IF c.state = "Playing"
    THEN [ctl |-> change_state(c, "Cancel", 0, 0), woken |-> Wake(c, w)]
    ELSE [ctl |-> c, woken |-> w]

\* a drop of the completion future that leaves the clip playing
drop_future_forget(c, w, seqno) == [ctl |-> c, woken |-> w]

\* PlaybackFuture::drop
drop_future(c, w, seqno) ==
    IF c.state = "Playing" /\ c.seqno = seqno
    THEN [ctl |-> change_state(c, "Cancel", 0, 0), woken |-> Wake(c, w)]
    ELSE [ctl |-> c, woken |-> w]

\* generate_samples, the Playing branch: pos after the copy, before the
\* end-of-clip test
CopyEnd(p, len) == IF len - p >= BufLen THEN p + BufLen ELSE len

\* generate_samples: the render callback, one call
generate_samples(c, w, cur, p) ==
    CASE c.state = "Playing" ->
            LET p0 == IF c.seqno # cur THEN 0 ELSE p
                p1 == IF p0 >= c.samples THEN 0 ELSE p0
                p2 == CopyEnd(p1, c.samples)
            IN  IF p2 >= c.samples
                THEN [ctl |-> change_state(c, "Ready", 0, 0), woken |-> Wake(c, w),
                      cur |-> c.seqno, pos |-> 0, emit |-> c.seqno]
                ELSE [ctl |-> c, woken |-> w, cur |-> c.seqno, pos |-> p2, emit |-> c.seqno]
      [] c.state = "Cancel" ->
            [ctl |-> change_state(c, "Ready", 0, 0), woken |-> Wake(c, w),
             cur |-> cur, pos |-> 0, emit |-> -1]
      [] OTHER ->
            [ctl |-> c, woken |-> w, cur |-> cur, pos |-> p, emit |-> 0]

\* -------------------------------------------------------- clip_queue.rs

\* the executor thread is inside start_clip, waiting on the condition variable
Blocked == \E c \in Plays : pc[c] = "start"

\* the owner of a token id
Owner(id) == CHOOSE c \in Plays : tok[c] = id

\* the play future has returned or was dropped: its locals are gone
Finished(c) ==
    /\ pc' = [pc EXCEPT ![c] = "done"]
    /\ tok' = [tok EXCEPT ![c] = 0]
    /\ prio' = [prio EXCEPT ![c] = 0]
    /\ tmo' = [tmo EXCEPT ![c] = FALSE]
    /\ clip' = [clip EXCEPT ![c] = 0]
    /\ seq' = [seq EXCEPT ![c] = 0]
    /\ grant' = [grant EXCEPT ![c] = "none"]
    /\ preempted' = preempted \ {c}

\* ClipQueue::play from the point where get_token / get_token_timeout has
\* returned the token: start_clip and the first poll of the completion future
Granted(c, q, ntf, id, len) ==
    LET r == start_clip(ctl, woken, nextSeq, len) IN
    /\ queue' = q
    /\ notify' = ntf
    /\ grant' = [grant EXCEPT ![c] = IF q # <<>> /\ q[1].id = id THEN "active" ELSE "stale"]
    /\ nextSeq' = nextSeq + 1
    /\ seq' = [seq EXCEPT ![c] = nextSeq]
    /\ woken' = r.woken
    /\ IF r.blocked
       THEN /\ ctl' = r.ctl
            /\ pc' = [pc EXCEPT ![c] = "start"]
       ELSE /\ ctl' = [r.ctl EXCEPT !.waker = c]
            /\ pc' = [pc EXCEPT ![c] = "playing"]

\* ClipQueue::play is called and polled for the first time
Play(c, p, t, len) ==
    /\ ~Blocked
    /\ pc[c] = "idle"
    /\ \A d \in Plays : d < c => pc[d] # "idle"
    /\ LET id == nextId
           sorted == sort_by_priority(Append(queue, [id |-> id, priority |-> p]))
           r == get_token_with_notify(queue, notify, id, p)
       IN  /\ nextId' = nextId + 1
           /\ tok' = [tok EXCEPT ![c] = id]
           /\ prio' = [prio EXCEPT ![c] = p]
           /\ tmo' = [tmo EXCEPT ![c] = t]
           /\ clip' = [clip EXCEPT ![c] = len]
           /\ preempted' = IF /\ PushedAway(sorted, id)
                              /\ pc[Owner(sorted[2].id)] = "playing"
                              /\ FuturePending(ctl, seq[Owner(sorted[2].id)])
                           THEN preempted \cup {Owner(sorted[2].id)}
                           ELSE preempted
           /\ IF is_waiting(r.queue, id)
              THEN /\ queue' = r.queue
                   /\ notify' = r.notify
                   /\ pc' = [pc EXCEPT ![c] = "acquire"]
                   /\ UNCHANGED <<ctl, nextSeq, seq, woken, grant>>
              ELSE Granted(c, r.queue, r.notify, id, len)
    /\ UNCHANGED <<curSeqno, pos>>
    /\ UNCHANGED <<smVars, tagVars, actVars, almVars, runVars, parseVars, lockVars>>
    /\ lastDrop' = "none"

\* the play future is polled after its token's Notify was fired
PollAcquire(c) ==
    /\ ~Blocked
    /\ pc[c] = "acquire"
    /\ notify[tok[c]]
    /\ LET ntf == [notify EXCEPT ![tok[c]] = FALSE] IN
       IF is_waiting(queue, tok[c])
       THEN /\ notify' = ntf
            /\ UNCHANGED <<queue, ctl, nextSeq, seq, woken, grant, pc>>
       ELSE Granted(c, queue, ntf, tok[c], clip[c])
    /\ UNCHANGED <<nextId, tok, prio, tmo, clip, preempted, curSeqno, pos>>
    /\ UNCHANGED <<smVars, tagVars, actVars, almVars, runVars, parseVars, lockVars>>
    /\ lastDrop' = "none"

\* the deadline of get_token_timeout expires: None, the token is dropped,
\* play returns Ok(())
AcquireTimeout(c) ==
    /\ ~Blocked
    /\ pc[c] = "acquire"
    /\ tmo[c]
    /\ ~notify[tok[c]]
    /\ LET r == release(queue, notify, tok[c]) IN
       /\ queue' = r.queue
       /\ notify' = [r.notify EXCEPT ![tok[c]] = FALSE]
    /\ Finished(c)
    /\ woken' = [woken EXCEPT ![c] = FALSE]
    /\ UNCHANGED <<nextId, ctl, nextSeq, curSeqno, pos>>
    /\ UNCHANGED <<smVars, tagVars, actVars, almVars, runVars, parseVars, lockVars>>
    /\ lastDrop' = "none"

\* start_clip wakes up from the condition variable
StartClipResume(c) ==
    /\ pc[c] = "start"
    /\ ctl.state \notin {"Setup", "Cancel"}
    /\ LET r == start_clip(ctl, woken, seq[c], clip[c]) IN
       /\ woken' = r.woken
       /\ IF r.blocked
          THEN /\ ctl' = r.ctl
               /\ pc' = pc
          ELSE /\ ctl' = [r.ctl EXCEPT !.waker = c]
               /\ pc' = [pc EXCEPT ![c] = "playing"]
    /\ UNCHANGED <<queue, notify, nextId, nextSeq, curSeqno, pos, tok, prio, tmo,
                   clip, seq, grant, preempted>>
    /\ UNCHANGED <<smVars, tagVars, actVars, almVars, runVars, parseVars, lockVars>>
    /\ lastDrop' = "none"

\* the play future is polled after the waker of its completion future was
\* invoked; on Ready(Ok) the token is dropped and play returns Ok(())
PollFuture(c) ==
    /\ ~Blocked
    /\ pc[c] = "playing"
    /\ woken[c]
    /\ woken' = [woken EXCEPT ![c] = FALSE]
    /\ IF FuturePending(ctl, seq[c])
       THEN /\ ctl' = [ctl EXCEPT !.waker = c]
            /\ UNCHANGED <<queue, notify, pc, tok, prio, tmo, clip, seq, grant, preempted>>
       ELSE /\ LET r == release(queue, notify, tok[c]) IN
               /\ queue' = r.queue
               /\ notify' = [r.notify EXCEPT ![tok[c]] = FALSE]
            /\ Finished(c)
            /\ ctl' = ctl
    /\ UNCHANGED <<nextId, nextSeq, curSeqno, pos>>
    /\ UNCHANGED <<smVars, tagVars, actVars, almVars, runVars, parseVars, lockVars>>
    /\ lastDrop' = (IF FuturePending(ctl, seq[c]) THEN "none" ELSE "other")

\* the play future is dropped at a suspension point (cancellation): the
\* completion future is dropped first, the token last
DropPlay(c) ==
    /\ ~Blocked
    /\ pc[c] \in {"acquire", "playing"}
    /\ LET d == IF pc[c] = "playing" THEN drop_future(ctl, woken, seq[c])
                ELSE [ctl |-> ctl, woken |-> woken]
           r == release(queue, notify, tok[c])
       IN  /\ ctl' = d.ctl
           /\ woken' = [d.woken EXCEPT ![c] = FALSE]
           /\ queue' = r.queue
           /\ notify' = [r.notify EXCEPT ![tok[c]] = FALSE]
    /\ Finished(c)
    /\ UNCHANGED <<nextId, nextSeq, curSeqno, pos>>
    /\ UNCHANGED <<smVars, tagVars, actVars, almVars, runVars, parseVars, lockVars>>
    /\ lastDrop' = (CASE pc[c] = "acquire" -> "none"
                      [] pc[c] = "playing" /\ FuturePending(ctl, seq[c]) -> "own"
                      [] OTHER -> "other")

\* the render callback of the audio thread
Render ==
    /\ LET r == generate_samples(ctl, woken, curSeqno, pos) IN
       /\ ctl' = r.ctl
       /\ woken' = r.woken
       /\ curSeqno' = r.cur
       /\ pos' = r.pos
    /\ UNCHANGED <<queue, notify, nextId, nextSeq, pc, tok, prio, tmo, clip, seq,
                   grant, preempted>>
    /\ UNCHANGED <<smVars, tagVars, actVars, almVars, runVars, parseVars, lockVars>>
    /\ lastDrop' = "none"

\* playback_thread: the stream is running, Setup -> Ready
ThreadReady ==
    /\ ctl.state = "Setup"
    /\ ctl' = change_state(ctl, "Ready", 0, 0)
    /\ woken' = Wake(ctl, woken)
    /\ UNCHANGED <<queue, notify, nextId, nextSeq, curSeqno, pos, pc, tok, prio,
                   tmo, clip, seq, grant, preempted>>
    /\ UNCHANGED <<smVars, tagVars, actVars, almVars, runVars, parseVars, lockVars>>
    /\ lastDrop' = "none"

NextClip ==
    \/ \E c \in Plays, p \in Prios, t \in BOOLEAN, len \in ClipLens : Play(c, p, t, len)
    \/ \E c \in Plays : PollAcquire(c)
    \/ \E c \in Plays : AcquireTimeout(c)
    \/ \E c \in Plays : StartClipResume(c)
    \/ \E c \in Plays : PollFuture(c)
    \/ \E c \in Plays : DropPlay(c)
    \/ Render
    \/ ThreadReady

\* ----------------------------------------------------- state_machine.rs

\* a goto that keeps the target of an earlier goto the executor has not seen
goto_first_wins(s, state_index) ==
    IF NStates <= state_index THEN s
    ELSE IF s.restart THEN [s EXCEPT !.changed = TRUE]
    ELSE [s EXCEPT !.restart = TRUE, !.active = state_index, !.changed = TRUE]

\* a goto that does not fire the change notification
goto_silent(s, state_index) ==
    IF NStates <= state_index THEN s
    ELSE [s EXCEPT !.restart = TRUE, !.active = state_index]

\* StateMachine::goto
goto(s, state_index) ==
    IF NStates <= state_index THEN s
    ELSE [s EXCEPT !.restart = TRUE, !.active = state_index, !.changed = TRUE]

\* a stop that does not fire the change notification
stop_silent(s) == [s EXCEPT !.active = None]

\* StateMachine::stop
stop(s) == [s EXCEPT !.active = None, !.changed = TRUE]

\* EventLimit::count: one event is recorded; the result tells whether the
\* window still had room for it
count(used) ==
    IF used < LimitN THEN [ok |-> TRUE, used |-> used + 1]
    ELSE [ok |-> FALSE, used |-> used]

\* the condition under which run starts an action
StateChanged(s, e) == e.running_state # s.active \/ s.restart

\* an evaluation that keeps the replaced action future alive
evaluate_keep(s, e, lv, used, inst) ==
    IF ~StateChanged(s, e)
    THEN [sm |-> s, ex |-> [e EXCEPT !.pc = IF e.running_action = NoAction THEN "wait" ELSE "select"],
          live |-> lv, used |-> used, inst |-> inst, dropped |-> NoAction,
          calls |-> <<>>]
    ELSE LET cnt == count(used) IN
         IF ~cnt.ok
         THEN [sm |-> s, ex |-> [pc |-> "err", running_action |-> NoAction, running_state |-> e.running_state],
               live |-> {}, used |-> cnt.used, inst |-> inst, dropped |-> e.running_action,
               calls |-> <<cnt.ok>>]
         ELSE IF s.active = None
         THEN [sm |-> s, ex |-> [pc |-> "ok", running_action |-> NoAction, running_state |-> e.running_state],
               live |-> {}, used |-> cnt.used, inst |-> inst, dropped |-> e.running_action,
               calls |-> <<cnt.ok>>]
         ELSE LET new == [id |-> inst, state |-> s.active] IN
              [sm |-> [s EXCEPT !.restart = FALSE],
               ex |-> [pc |-> "select", running_action |-> new, running_state |-> s.active],
               live |-> lv \cup {new},
               used |-> cnt.used, inst |-> inst + 1, dropped |-> e.running_action,
               calls |-> <<cnt.ok>>]

\* an evaluation that does not look at the restart flag
evaluate_norestart(s, e, lv, used, inst) ==
    IF e.running_state = s.active
    THEN [sm |-> s, ex |-> [e EXCEPT !.pc = IF e.running_action = NoAction THEN "wait" ELSE "select"],
          live |-> lv, used |-> used, inst |-> inst, dropped |-> NoAction,
          calls |-> <<>>]
    ELSE LET cnt == count(used) IN
         IF ~cnt.ok
         THEN [sm |-> s, ex |-> [pc |-> "err", running_action |-> NoAction, running_state |-> e.running_state],
               live |-> {}, used |-> cnt.used, inst |-> inst, dropped |-> e.running_action,
               calls |-> <<cnt.ok>>]
         ELSE IF s.active = None
         THEN [sm |-> s, ex |-> [pc |-> "ok", running_action |-> NoAction, running_state |-> e.running_state],
               live |-> {}, used |-> cnt.used, inst |-> inst, dropped |-> e.running_action,
               calls |-> <<cnt.ok>>]
         ELSE LET new == [id |-> inst, state |-> s.active] IN
              [sm |-> [s EXCEPT !.restart = FALSE],
               ex |-> [pc |-> "select", running_action |-> new, running_state |-> s.active],
               live |-> (lv \ {e.running_action}) \cup {new},
               used |-> cnt.used, inst |-> inst + 1, dropped |-> e.running_action,
               calls |-> <<cnt.ok>>]

\* an evaluation that consults the limiter only when the state differs from
\* the started one, not for a restart of the same state
evaluate_restart_free(s, e, lv, used, inst) ==
    IF ~StateChanged(s, e)
    THEN [sm |-> s, ex |-> [e EXCEPT !.pc = IF e.running_action = NoAction THEN "wait" ELSE "select"],
          live |-> lv, used |-> used, inst |-> inst, dropped |-> NoAction,
          calls |-> <<>>]
    ELSE LET cnt == IF e.running_state # s.active THEN count(used)
                    ELSE [ok |-> TRUE, used |-> used]
             cls == IF e.running_state # s.active THEN <<cnt.ok>> ELSE <<>> IN
         IF ~cnt.ok
         THEN [sm |-> s, ex |-> [pc |-> "err", running_action |-> NoAction, running_state |-> e.running_state],
               live |-> {}, used |-> cnt.used, inst |-> inst, dropped |-> e.running_action,
               calls |-> cls]
         ELSE IF s.active = None
         THEN [sm |-> s, ex |-> [pc |-> "ok", running_action |-> NoAction, running_state |-> e.running_state],
               live |-> {}, used |-> cnt.used, inst |-> inst, dropped |-> e.running_action,
               calls |-> cls]
         ELSE LET new == [id |-> inst, state |-> s.active] IN
              [sm |-> [s EXCEPT !.restart = FALSE],
               ex |-> [pc |-> "select", running_action |-> new, running_state |-> s.active],
               live |-> (lv \ {e.running_action}) \cup {new},
               used |-> cnt.used, inst |-> inst + 1, dropped |-> e.running_action,
               calls |-> cls]

\* the block at the top of the loop of StateMachine::run: the state is
\* compared with the last started one; on a change the limiter is counted,
\* the new state's action is run and assigned to running_action (which drops
\* the future it held), or run returns
evaluate(s, e, lv, used, inst) ==
    IF ~StateChanged(s, e)
    THEN [sm |-> s, ex |-> [e EXCEPT !.pc = IF e.running_action = NoAction THEN "wait" ELSE "select"],
          live |-> lv, used |-> used, inst |-> inst, dropped |-> NoAction,
          calls |-> <<>>]
    ELSE LET cnt == count(used) IN
         IF ~cnt.ok
         THEN \* return Err: the locals of run are dropped
              [sm |-> s, ex |-> [pc |-> "err", running_action |-> NoAction, running_state |-> e.running_state],
               live |-> {}, used |-> cnt.used, inst |-> inst, dropped |-> e.running_action,
               calls |-> <<cnt.ok>>]
         ELSE IF s.active = None
         THEN \* break, return Ok(())
              [sm |-> s, ex |-> [pc |-> "ok", running_action |-> NoAction, running_state |-> e.running_state],
               live |-> {}, used |-> cnt.used, inst |-> inst, dropped |-> e.running_action,
               calls |-> <<cnt.ok>>]
         ELSE LET new == [id |-> inst, state |-> s.active] IN
              [sm |-> [s EXCEPT !.restart = FALSE],
               ex |-> [pc |-> "select", running_action |-> new, running_state |-> s.active],
               live |-> (lv \ {e.running_action}) \cup {new},
               used |-> cnt.used, inst |-> inst + 1, dropped |-> e.running_action,
               calls |-> <<cnt.ok>>]

\* history: no goto or stop call since the last evaluation
NoBurst == [n |-> 0, mid |-> {}, last |-> None]

\* history: a goto or stop call with target g is added to the calls made
\* since the last evaluation
Noted(b, g) ==
    [n |-> b.n + 1, mid |-> IF b.n = 0 THEN {} ELSE b.mid \cup {b.last}, last |-> g]

\* StateMachine::run is called: active_state = Some(0)
RunStart ==
    /\ ex.pc = "new"
    /\ sm' = [sm EXCEPT !.active = 0]
    /\ ex' = [ex EXCEPT !.pc = "top"]
    /\ UNCHANGED <<live, nextInst, limUsed, nGoto, dropped, lastGoto>>
    \* the assignment above replaces the target of every call made before run
    /\ burst' = NoBurst
    /\ UNCHANGED <<calls, handled>>
    /\ UNCHANGED <<clipVars, tagVars, actVars, almVars, runVars, parseVars, lockVars>>

\* one pass through the block at the top of the loop
ExecEvaluate ==
    /\ ex.pc = "top"
    /\ LET r == evaluate(sm, ex, live, limUsed, nextInst) IN
       /\ sm' = r.sm
       /\ ex' = r.ex
       /\ live' = r.live
       /\ limUsed' = r.used
       /\ nextInst' = r.inst
       /\ dropped' = r.dropped
       /\ calls' = r.calls
    /\ handled' = burst
    /\ burst' = NoBurst
    /\ UNCHANGED <<nGoto, lastGoto>>
    /\ UNCHANGED <<clipVars, tagVars, actVars, almVars, runVars, parseVars, lockVars>>

\* select!: the branch of current_changed.notified() is taken (also the
\* notified().await of the loop when no action is running)
SelNotified ==
    /\ ex.pc \in {"select", "wait"}
    /\ sm.changed
    /\ sm' = [sm EXCEPT !.changed = FALSE]
    /\ ex' = [ex EXCEPT !.pc = "top"]
    /\ UNCHANGED <<live, nextInst, limUsed, nGoto, dropped, lastGoto>>
    /\ UNCHANGED <<calls, burst, handled>>
    /\ UNCHANGED <<clipVars, tagVars, actVars, almVars, runVars, parseVars, lockVars>>

\* the state machine after the running action has called goto(g) on its own
\* machine during a poll (GotoAction::run); None = the poll calls no goto
ActionGoto(s, g) == IF g = None THEN s ELSE goto(s, g)

\* select!: the running action is polled and completes; with Ok the future
\* is released and the loop continues, with Err run returns it
SelActionDone(g, ok) ==
    /\ ex.pc = "select"
    /\ g # None => nGoto < MaxGoto
    /\ nGoto' = IF g = None THEN nGoto ELSE nGoto + 1
    /\ sm' = ActionGoto(sm, g)
    /\ live' = IF ok THEN live \ {ex.running_action} ELSE {}
    /\ ex' = [ex EXCEPT !.pc = IF ok THEN "top" ELSE "err", !.running_action = NoAction]
    /\ lastGoto' = IF g = None THEN lastGoto ELSE "action"
    /\ UNCHANGED <<nextInst, limUsed, dropped>>
    /\ burst' = IF g = None THEN burst ELSE Noted(burst, g)
    /\ UNCHANGED <<calls, handled>>
    /\ UNCHANGED <<clipVars, tagVars, actVars, almVars, runVars, parseVars, lockVars>>

\* select!: the running action is polled, calls goto(g) and stays pending.
\* consumed: notified() is polled after the action and takes the permit;
\* otherwise notified() had been polled before and the select stays pending
\* with the notification stored for its next poll
SelActionGoto(g, consumed) ==
    /\ ex.pc = "select"
    /\ g # None
    /\ nGoto < MaxGoto
    /\ sm.changed => consumed
    /\ nGoto' = nGoto + 1
    /\ sm' = IF consumed THEN [goto(sm, g) EXCEPT !.changed = FALSE] ELSE goto(sm, g)
    /\ ex' = [ex EXCEPT !.pc = IF consumed THEN "top" ELSE "select"]
    /\ lastGoto' = "action"
    /\ UNCHANGED <<live, nextInst, limUsed, dropped>>
    /\ burst' = Noted(burst, g)
    /\ UNCHANGED <<calls, handled>>
    /\ UNCHANGED <<clipVars, tagVars, actVars, almVars, runVars, parseVars, lockVars>>

\* goto is called from outside the machine's own action
GotoCall(state_index) ==
    /\ nGoto < MaxGoto
    /\ nGoto' = nGoto + 1
    /\ sm' = goto(sm, state_index)
    /\ lastGoto' = "outside"
    /\ UNCHANGED <<ex, live, nextInst, limUsed, dropped>>
    /\ burst' = IF NStates <= state_index THEN burst ELSE Noted(burst, state_index)
    /\ UNCHANGED <<calls, handled>>
    /\ UNCHANGED <<clipVars, tagVars, actVars, almVars, runVars, parseVars, lockVars>>

\* stop is called
StopCall ==
    /\ nGoto < MaxGoto
    /\ nGoto' = nGoto + 1
    /\ sm' = stop(sm)
    /\ lastGoto' = "stop"
    /\ UNCHANGED <<ex, live, nextInst, limUsed, dropped>>
    /\ burst' = Noted(burst, None)
    /\ UNCHANGED <<calls, handled>>
    /\ UNCHANGED <<clipVars, tagVars, actVars, almVars, runVars, parseVars, lockVars>>

\* the window of the rate limiter moves past its oldest event
LimitExpire ==
    /\ limUsed > 0
    /\ limUsed' = limUsed - 1
    /\ UNCHANGED <<sm, ex, live, nextInst, nGoto, dropped, lastGoto>>
    /\ UNCHANGED <<calls, burst, handled>>
    /\ UNCHANGED <<clipVars, tagVars, actVars, almVars, runVars, parseVars, lockVars>>

NextSM ==
    \/ RunStart
    \/ ExecEvaluate
    \/ SelNotified
    \/ \E g \in StateIdx \cup {None}, ok \in BOOLEAN : SelActionDone(g, ok)
    \/ \E g \in StateIdx, consumed \in BOOLEAN : SelActionGoto(g, consumed)
    \/ \E i \in 0..NStates : GotoCall(i)
    \/ StopCall
    \/ LimitExpire

\* ------------------------------------------- app_config.rs: TagContext

\* watch::Sender::send: the value is stored and the version advances
send(t, new_value) == [t EXCEPT !.value = new_value, !.version = t.version + 1]

\* TagContext::tag_changed
tag_changed(t, new_value) == send([t EXCEPT !.state = new_value], new_value)

\* data.observers.1.clone(): the clone takes the version of the receiver
\* kept in the TagObservable, which is never updated after watch::channel
clone_receiver(t) == 0

\* a first poll without borrow_and_update
keep_version(t, seen) == seen

\* rx.borrow_and_update() in the future of wait_value: the receiver marks
\* the current version as seen
borrow_and_update(t, seen) == t.version

\* rx.changed(): ready when the channel has a version the receiver has not seen
has_changed(t, seen) == t.version # seen

\* TagDispatcher::wait_value is called: the value and a future are returned
WaitValue(w) ==
    /\ wait[w].pc = "none"
    /\ \A x \in Waiters : x < w => wait[x].pc # "none"
    /\ wait' = [wait EXCEPT ![w] = [pc |-> "created", value |-> tag.state,
                                    seen |-> clone_receiver(tag), result |-> None]]
    /\ callVer' = [callVer EXCEPT ![w] = tag.version]
    /\ UNCHANGED <<tag, setReq, egress, handlers, timedOut, acked, wtg>>
    /\ UNCHANGED <<clipVars, smVars, actVars, almVars, runVars, parseVars, lockVars>>

\* the future of wait_value is polled for the first time
WaitFirstPoll(w) ==
    /\ wait[w].pc = "created"
    /\ LET seen == borrow_and_update(tag, wait[w].seen) IN
       wait' = [wait EXCEPT ![w] =
                   IF has_changed(tag, seen)
                   THEN [@ EXCEPT !.pc = "ready", !.seen = tag.version, !.result = tag.value]
                   ELSE [@ EXCEPT !.pc = "armed", !.seen = seen]]
    /\ UNCHANGED <<tag, callVer, setReq, egress, handlers, timedOut, acked, wtg>>
    /\ UNCHANGED <<clipVars, smVars, actVars, almVars, runVars, parseVars, lockVars>>

\* the future of wait_value is polled again after the channel woke it
WaitPoll(w) ==
    /\ wait[w].pc = "armed"
    /\ has_changed(tag, wait[w].seen)
    /\ wait' = [wait EXCEPT ![w] = [@ EXCEPT !.pc = "ready", !.seen = tag.version,
                                              !.result = tag.value]]
    /\ UNCHANGED <<tag, callVer, setReq, egress, handlers, timedOut, acked, wtg>>
    /\ UNCHANGED <<clipVars, smVars, actVars, almVars, runVars, parseVars, lockVars>>

\* the ingress loop receives NotifySubscribeTag: trig_on_tag
TagChanged(v) ==
    /\ tag.version < MaxChanges
    /\ tag' = tag_changed(tag, v)
    /\ UNCHANGED <<wait, callVer, setReq, egress, handlers, timedOut, acked, wtg>>
    /\ UNCHANGED <<clipVars, smVars, actVars, almVars, runVars, parseVars, lockVars>>

\* an async_set_tag that defers the broadcast and the request into the
\* future it returns
async_set_tag_lazy(t, q, reqs, r, value) ==
    [tag |-> t, egress |-> q,
     setReq |-> [reqs EXCEPT ![r] = [pc |-> "pending", done |-> "open", result |-> "none"]]]

\* TagSetter::async_set_tag before it returns: tag_changed broadcasts the
\* value, the request is sent to the egress queue, and the future that waits
\* for done_recv is returned unpolled
async_set_tag(t, q, reqs, r, value) ==
    [tag |-> tag_changed(t, value), egress |-> Append(q, r),
     setReq |-> [reqs EXCEPT ![r] = [pc |-> "pending", done |-> "open", result |-> "none"]]]

\* SetTagAction::run: the call of async_set_tag
SetTag(r, v) ==
    /\ setReq[r].pc = "none"
    /\ \A q \in SetTags : q < r => setReq[q].pc # "none"
    /\ tag.version < MaxChanges
    /\ LET f == async_set_tag(tag, egress, setReq, r, v) IN
        /\ tag' = f.tag
        /\ egress' = f.egress
        /\ setReq' = f.setReq
    /\ UNCHANGED <<wait, callVer, handlers, timedOut, acked, wtg>>
    /\ UNCHANGED <<clipVars, smVars, actVars, almVars, runVars, parseVars, lockVars>>

\* the future of async_set_tag is dropped before it completed: done_recv
\* is dropped with it
SetTagDrop(r) ==
    /\ setReq[r].pc = "pending"
    /\ setReq' = [setReq EXCEPT ![r] = [pc |-> "dropped", done |-> "closed", result |-> "none"]]
    /\ UNCHANGED <<tag, wait, callVer, egress, handlers, timedOut, acked, wtg>>
    /\ UNCHANGED <<clipVars, smVars, actVars, almVars, runVars, parseVars, lockVars>>

\* the ingress loop takes a request from pipe_send_rx, writes the tag to the
\* pipe and queues the handler that waits for the confirmation
EgressRecv ==
    /\ egress # <<>>
    /\ handlers' = Append(handlers, Head(egress))
    /\ egress' = Tail(egress)
    /\ UNCHANGED <<tag, wait, callVer, setReq, timedOut, acked, wtg>>
    /\ UNCHANGED <<clipVars, smVars, actVars, almVars, runVars, parseVars, lockVars>>

\* the handlers of the list that stay after a message
RECURSIVE KeepHandlers(_, _)
KeepHandlers(hs, keep) ==
    IF hs = <<>> THEN <<>>
    ELSE IF Head(hs) \in keep THEN <<Head(hs)>> \o KeepHandlers(Tail(hs), keep)
         ELSE KeepHandlers(Tail(hs), keep)

Range(f) == {f[i] : i \in DOMAIN f}

\* oneshot::Sender::send: the value is stored unless the receiver is gone
oneshot_send(done) == IF done = "open" THEN "sent" ELSE done

\* a NotifyWriteTag that names only the tag of the oldest handler's request:
\* the loop over handler_list stops at the first handler that answered
dispatch_write_oldest(hs, reqs) ==
    IF hs = <<>> THEN [handlers |-> <<>>, setReq |-> reqs, acked |-> {}]
    ELSE [handlers |-> Tail(hs),
          setReq |-> [reqs EXCEPT ![Head(hs)].done = oneshot_send(@)],
          acked |-> {Head(hs)}]

\* the loop over handler_list for a NotifyWriteTag naming the tag: each
\* acknowledgment handler takes its done sender, sends Ok(()) and returns
\* Ok(false), so the loop removes it and goes on with the next one
RECURSIVE dispatch_write(_, _)
dispatch_write(hs, reqs) ==
    IF hs = <<>> THEN [handlers |-> <<>>, setReq |-> reqs, acked |-> {}]
    ELSE LET r == Head(hs)
             rest == dispatch_write(Tail(hs), [reqs EXCEPT ![r].done = oneshot_send(@)])
         IN  [rest EXCEPT !.acked = @ \cup {r}]

\* the ingress loop receives NotifyWriteTag naming the tag
NotifyWriteTag ==
    /\ handlers # <<>>
    /\ LET d == dispatch_write(handlers, setReq) IN
        /\ setReq' = d.setReq
        /\ handlers' = d.handlers
        /\ acked' = d.acked
    /\ UNCHANGED <<tag, wait, callVer, egress, timedOut, wtg>>
    /\ UNCHANGED <<clipVars, smVars, actVars, almVars, runVars, parseVars, lockVars>>

\* the ingress loop receives another message: a handler stays while the
\* receiver of its done channel exists
OtherMessage ==
    /\ handlers # <<>>
    /\ handlers' = KeepHandlers(handlers, {r \in SetTags : setReq[r].done # "closed"})
    /\ handlers' # handlers
    /\ UNCHANGED <<tag, wait, callVer, setReq, egress, timedOut, acked, wtg>>
    /\ UNCHANGED <<clipVars, smVars, actVars, almVars, runVars, parseVars, lockVars>>

\* the future of async_set_tag after timeout(500 ms, done_recv) returned
\* Err(Elapsed): the first ? returns the error
elapsed_result == "Err"

\* the future of async_set_tag is polled after the acknowledgment was sent
SetTagAck(r) ==
    /\ setReq[r].pc = "pending"
    /\ setReq[r].done = "sent"
    /\ setReq' = [setReq EXCEPT ![r] = [pc |-> "ready", done |-> "closed", result |-> "Ok"]]
    /\ UNCHANGED <<tag, wait, callVer, egress, handlers, timedOut, acked, wtg>>
    /\ UNCHANGED <<clipVars, smVars, actVars, almVars, runVars, parseVars, lockVars>>

\* the 500 ms of the future of async_set_tag elapse without acknowledgment
SetTagTimeout(r) ==
    /\ setReq[r].pc = "pending"
    /\ setReq[r].done = "open"
    /\ setReq' = [setReq EXCEPT ![r] = [pc |-> "ready", done |-> "closed", result |-> elapsed_result]]
    /\ timedOut' = timedOut \cup {r}
    /\ UNCHANGED <<tag, wait, callVer, egress, handlers, acked, wtg>>
    /\ UNCHANGED <<clipVars, smVars, actVars, almVars, runVars, parseVars, lockVars>>

\* tag_dispatcher::Error::DispatcherNotAvailable as the result of a future
DispatcherNotAvailable == -2

\* TagContext::add_tag: the entry of the map is replaced by a TagObservable
\* with the given state and a new watch channel
add_tag(t, state) == [state |-> state, value |-> EmptyString, version |-> 0]

\* the future of wait_value after the sender of its channel was dropped:
\* rx.changed() returns a version the receiver has not seen, if there is
\* one, and the error otherwise
sender_dropped(t, w) ==
    IF w.pc \notin {"created", "armed"} THEN w
    ELSE IF w.pc = "armed" /\ has_changed(t, w.seen)
         THEN [w EXCEPT !.pc = "closed", !.result = t.value]
         ELSE [w EXCEPT !.pc = "closed", !.result = DispatcherNotAvailable]

\* TagContext::add_tag is called for the registered tag
AddTag(state) ==
    /\ tag' = add_tag(tag, state)
    /\ wait' = [w \in Waiters |-> sender_dropped(tag, wait[w])]
    /\ UNCHANGED <<callVer, setReq, egress, handlers, timedOut, acked, wtg>>
    /\ UNCHANGED <<clipVars, smVars, actVars, almVars, runVars, parseVars, lockVars>>

\* the future of wait_value is polled after its channel was closed
WaitClosed(w) ==
    /\ wait[w].pc = "closed"
    /\ wait' = [wait EXCEPT ![w] = [@ EXCEPT !.pc = "ready"]]
    /\ UNCHANGED <<tag, callVer, setReq, egress, handlers, timedOut, acked, wtg>>
    /\ UNCHANGED <<clipVars, smVars, actVars, almVars, runVars, parseVars, lockVars>>

NextTag ==
    \/ \E w \in Waiters : WaitValue(w)
    \/ \E w \in Waiters : WaitFirstPoll(w)
    \/ \E w \in Waiters : WaitPoll(w)
    \/ \E v \in TagVals : TagChanged(v)
    \/ \E r \in SetTags, v \in TagVals : SetTag(r, v)
    \/ EgressRecv
    \/ NotifyWriteTag
    \/ OtherMessage
    \/ \E r \in SetTags : SetTagAck(r)
    \/ \E r \in SetTags : SetTagTimeout(r)

\* the tag dispatcher with add_tag callable at any time
NextTagAdd ==
    \/ NextTag
    \/ \E state \in TagVals \cup {None} : AddTag(state)
    \/ \E w \in Waiters : WaitClosed(w)

\* ------------------------------ actions/parallel.rs, actions/sequence.rs

\* The result of an action future: Ok(()) or the error of child i, Err(i)
Ok == 0
Err(i) == i

\* the futures of the children: "idle" (not created), "running", "ok",
\* "err" (completed) or "dropped"
NewChildren == [i \in Children |-> "idle"]

\* a.run() for every child of a ParallelAction (the loop of the first poll)
run_all_children(child) == [i \in Children |-> "running"]

\* join_all(action_futures).await: ready when every child has completed
join_all(child) == \A i \in Children : child[i] \in {"ok", "err"}

\* the rest of the async block of ParallelAction::run after a poll of join_all
parallel_poll(p, child) ==
    IF join_all(child)
    THEN [p EXCEPT !.child = child, !.pc = "done", !.result = Ok]
    ELSE [p EXCEPT !.child = child]

\* dropping an action future drops the futures of its children
drop_children(child) ==
    [i \in Children |-> IF child[i] = "running" THEN "dropped" ELSE child[i]]

\* first poll of the future of ParallelAction::run
ParFirstPoll ==
    /\ par.pc = "new"
    /\ par' = parallel_poll([par EXCEPT !.pc = "join"], run_all_children(par.child))
    /\ UNCHANGED <<firstErr, sqn, rep, repUsed>>
    /\ UNCHANGED <<clipVars, smVars, tagVars, almVars, runVars, parseVars, lockVars>>

\* child i completes and the future of ParallelAction::run is polled
ParChildDone(i, ok) ==
    /\ par.pc = "join"
    /\ par.child[i] = "running"
    /\ par' = parallel_poll(par, [par.child EXCEPT ![i] = IF ok THEN "ok" ELSE "err"])
    /\ firstErr' = IF ~ok /\ firstErr = 0 THEN i ELSE firstErr
    /\ UNCHANGED <<sqn, rep, repUsed>>
    /\ UNCHANGED <<clipVars, smVars, tagVars, almVars, runVars, parseVars, lockVars>>

\* the owner of the future of ParallelAction::run drops it
ParDrop ==
    /\ par.pc \in {"new", "join"}
    /\ par' = [par EXCEPT !.pc = "dropped", !.child = drop_children(par.child)]
    /\ UNCHANGED <<firstErr, sqn, rep, repUsed>>
    /\ UNCHANGED <<clipVars, smVars, tagVars, almVars, runVars, parseVars, lockVars>>

\* `a.run().await;` without the question mark
sequence_ignore_error(s, i, ok) ==
    LET child == [s.child EXCEPT ![i] = IF ok THEN "ok" ELSE "err"]
    IN IF i < NChildren
       THEN [s EXCEPT !.child = [child EXCEPT ![i + 1] = "running"]]
       ELSE [s EXCEPT !.child = child, !.pc = "done", !.result = Ok]

\* `a.run().await?` of SequenceAction::run when child i completes, and the
\* next iteration of the loop
sequence_next(s, i, ok) ==
    LET child == [s.child EXCEPT ![i] = IF ok THEN "ok" ELSE "err"]
    IN IF ~ok
       THEN [s EXCEPT !.child = child, !.pc = "done", !.result = Err(i)]
       ELSE IF i < NChildren
       THEN [s EXCEPT !.child = [child EXCEPT ![i + 1] = "running"]]
       ELSE [s EXCEPT !.child = child, !.pc = "done", !.result = Ok]

\* first poll of the future of SequenceAction::run: the first child is run
SeqFirstPoll ==
    /\ sqn.pc = "new"
    /\ sqn' = [sqn EXCEPT !.pc = "run", !.child[1] = "running"]
    /\ UNCHANGED <<par, firstErr, rep, repUsed>>
    /\ UNCHANGED <<clipVars, smVars, tagVars, almVars, runVars, parseVars, lockVars>>

\* the running child completes and the future of SequenceAction::run is polled
SeqChildDone(ok) ==
    /\ sqn.pc = "run"
    /\ \E i \in Children :
          /\ sqn.child[i] = "running"
          /\ sqn' = sequence_next(sqn, i, ok)
    /\ UNCHANGED <<par, firstErr, rep, repUsed>>
    /\ UNCHANGED <<clipVars, smVars, tagVars, almVars, runVars, parseVars, lockVars>>

\* the owner of the future of SequenceAction::run drops it
SeqDrop ==
    /\ sqn.pc \in {"new", "run"}
    /\ sqn' = [sqn EXCEPT !.pc = "dropped", !.child = drop_children(sqn.child)]
    /\ UNCHANGED <<par, firstErr, rep, repUsed>>
    /\ UNCHANGED <<clipVars, smVars, tagVars, almVars, runVars, parseVars, lockVars>>

\* ------------------------------------------------------ actions/repeat.rs

\* a future of RepeatAction::run that has not been polled
NewRepeat(cnt) ==
    [pc |-> "new", count |-> cnt, started |-> 0, calls |-> <<>>, result |-> "none"]

\* an iteration that calls limit.count() and runs the body whatever it says
repeat_iterate_unchecked(r, used) ==
    IF r.count # None
    THEN IF r.started < r.count
         THEN [rep |-> [r EXCEPT !.pc = "body", !.started = @ + 1], used |-> used]
         ELSE [rep |-> [r EXCEPT !.pc = "done", !.result = "Ok"], used |-> used]
    ELSE LET cnt == count(used) IN
         [rep |-> [r EXCEPT !.pc = "body", !.started = @ + 1,
                            !.calls = Append(@, cnt.ok)],
          used |-> cnt.used]

\* RepeatAction::run, the head of one iteration: with Some(count) the next
\* round of the for loop (or Ok(()) after the last one), with None the call
\* of limit.count() and the run of the body
repeat_iterate(r, used) ==
    IF r.count # None
    THEN IF r.started < r.count
         THEN [rep |-> [r EXCEPT !.pc = "body", !.started = @ + 1], used |-> used]
         ELSE [rep |-> [r EXCEPT !.pc = "done", !.result = "Ok"], used |-> used]
    ELSE LET cnt == count(used) IN
         IF ~cnt.ok
         THEN [rep |-> [r EXCEPT !.pc = "done", !.result = "Runaway",
                                 !.calls = Append(@, cnt.ok)],
               used |-> cnt.used]
         ELSE [rep |-> [r EXCEPT !.pc = "body", !.started = @ + 1,
                                 !.calls = Append(@, cnt.ok)],
               used |-> cnt.used]

\* RepeatAction::run is called on an action configured with count cnt, and
\* its future is polled for the first time; limit is a clone of repeat_limit
RepeatRun(cnt) ==
    /\ rep.pc \in {"none", "done", "dropped"}
    /\ LET r == repeat_iterate(NewRepeat(cnt), 0) IN
       /\ rep' = r.rep
       /\ repUsed' = r.used
    /\ UNCHANGED <<par, firstErr, sqn>>
    /\ UNCHANGED <<clipVars, smVars, tagVars, almVars, runVars, parseVars, lockVars>>

\* the body completes: `action.run().await?`, then the next iteration
RepBodyDone(ok) ==
    /\ rep.pc = "body"
    /\ (ok /\ rep.count = None) => rep.started < MaxRuns
    /\ IF ~ok
       THEN /\ rep' = [rep EXCEPT !.pc = "done", !.result = "BodyErr"]
            /\ UNCHANGED repUsed
       ELSE LET r == repeat_iterate(rep, repUsed) IN
            /\ rep' = r.rep
            /\ repUsed' = r.used
    /\ UNCHANGED <<par, firstErr, sqn>>
    /\ UNCHANGED <<clipVars, smVars, tagVars, almVars, runVars, parseVars, lockVars>>

\* the owner of the future of RepeatAction::run drops it
RepDrop ==
    /\ rep.pc = "body"
    /\ rep' = [rep EXCEPT !.pc = "dropped"]
    /\ UNCHANGED repUsed
    /\ UNCHANGED <<par, firstErr, sqn>>
    /\ UNCHANGED <<clipVars, smVars, tagVars, almVars, runVars, parseVars, lockVars>>

\* the window of limit moves past its oldest event
RepLimitExpire ==
    /\ rep.pc = "body"
    /\ repUsed > 0
    /\ repUsed' = repUsed - 1
    /\ UNCHANGED rep
    /\ UNCHANGED <<par, firstErr, sqn>>
    /\ UNCHANGED <<clipVars, smVars, tagVars, almVars, runVars, parseVars, lockVars>>

NextAct ==
    \/ ParFirstPoll
    \/ \E i \in Children, ok \in BOOLEAN : ParChildDone(i, ok)
    \/ ParDrop
    \/ SeqFirstPoll
    \/ \E ok \in BOOLEAN : SeqChildDone(ok)
    \/ SeqDrop
    \/ \E cnt \in {None} \cup (1..MaxRepeat) : RepeatRun(cnt)
    \/ \E ok \in BOOLEAN : RepBodyDone(ok)
    \/ RepDrop
    \/ RepLimitExpire

\* ----------------------------------------- app_config.rs: AlarmContext
\* One named filter without tag_matching and tag_ignored (update_tags then
\* has no tag to set).  The filter is `Priority <= FilterPriority`.

\* AlarmData: [id, priority, state]
Alarms == [id : AlarmIds, priority : 1..MaxAlarmPrio, state : {Raised, 128}]
\* no notification yet for an alarm id
NoAlarm == [id |-> 0, priority |-> 0, state |-> 0]

\* AlarmId::from(&AlarmData): the identity of an alarm
AlarmId_from(alarm) == alarm.id

\* BoolOp::evaluate for IntLessEqual(IntCriterion::Priority, FilterPriority)
evaluate_filter(alarm) == alarm.priority <= FilterPriority

\* self.matching.difference(&self.ignore).count() without the difference
matching_count_all(f) == Cardinality(f.matching)

\* AlarmFilterState::matching_count
matching_count(f) == Cardinality(f.matching \ f.ignore)

\* AlarmFilterState::update_alarm_counts: the value sent to the observers
update_alarm_counts(f) == matching_count(f)

\* AlarmFilterState::update_tags: the values written to the tags
\* tag_matching and tag_ignored
update_tags(f) == <<matching_count(f), Cardinality(f.ignore)>>

\* handle_notification without the test for state 128
handle_notification_vendor(f, snt, new_alarm) ==
    IF evaluate_filter(new_alarm)
    THEN IF AlarmId_from(new_alarm) \notin f.matching
         THEN LET g == [f EXCEPT !.matching = @ \cup {AlarmId_from(new_alarm)}]
              IN [flt |-> g, sent |-> update_alarm_counts(g), updated |-> TRUE]
         ELSE [flt |-> f, sent |-> snt, updated |-> FALSE]
    ELSE LET g == IF ~f.ignore_permanent
                  THEN [f EXCEPT !.ignore = @ \ {AlarmId_from(new_alarm)}]
                  ELSE f
             h == [g EXCEPT !.matching = @ \ {AlarmId_from(new_alarm)}]
         IN IF AlarmId_from(new_alarm) \in g.matching
            THEN [flt |-> h, sent |-> update_alarm_counts(h), updated |-> TRUE]
            ELSE [flt |-> g, sent |-> snt, updated |-> FALSE]

\* handle_notification whose else branch leaves matching alone
handle_notification_stale(f, snt, new_alarm) ==
    IF new_alarm.state = 128
    THEN [flt |-> f, sent |-> snt, updated |-> FALSE]
    ELSE IF evaluate_filter(new_alarm)
    THEN IF AlarmId_from(new_alarm) \notin f.matching
         THEN LET g == [f EXCEPT !.matching = @ \cup {AlarmId_from(new_alarm)}]
              IN [flt |-> g, sent |-> update_alarm_counts(g), updated |-> TRUE]
         ELSE [flt |-> f, sent |-> snt, updated |-> FALSE]
    ELSE LET g == IF ~f.ignore_permanent
                  THEN [f EXCEPT !.ignore = @ \ {AlarmId_from(new_alarm)}]
                  ELSE f
         IN [flt |-> g, sent |-> snt, updated |-> FALSE]

\* handle_notification that removes from matching without update_alarm_counts
handle_notification_quiet(f, snt, new_alarm) ==
    IF new_alarm.state = 128
    THEN [flt |-> f, sent |-> snt, updated |-> FALSE]
    ELSE IF evaluate_filter(new_alarm)
    THEN IF AlarmId_from(new_alarm) \notin f.matching
         THEN LET g == [f EXCEPT !.matching = @ \cup {AlarmId_from(new_alarm)}]
              IN [flt |-> g, sent |-> update_alarm_counts(g), updated |-> TRUE]
         ELSE [flt |-> f, sent |-> snt, updated |-> FALSE]
    ELSE LET g == IF ~f.ignore_permanent
                  THEN [f EXCEPT !.ignore = @ \ {AlarmId_from(new_alarm)}]
                  ELSE f
             h == [g EXCEPT !.matching = @ \ {AlarmId_from(new_alarm)}]
         IN [flt |-> h, sent |-> snt, updated |-> FALSE]

\* handle_notification with the test of ignore_permanent inverted
handle_notification_flipped(f, snt, new_alarm) ==
    IF new_alarm.state = 128
    THEN [flt |-> f, sent |-> snt, updated |-> FALSE]
    ELSE IF evaluate_filter(new_alarm)
    THEN IF AlarmId_from(new_alarm) \notin f.matching
         THEN LET g == [f EXCEPT !.matching = @ \cup {AlarmId_from(new_alarm)}]
              IN [flt |-> g, sent |-> update_alarm_counts(g), updated |-> TRUE]
         ELSE [flt |-> f, sent |-> snt, updated |-> FALSE]
    ELSE LET g == IF f.ignore_permanent
                  THEN [f EXCEPT !.ignore = @ \ {AlarmId_from(new_alarm)}]
                  ELSE f
             h == [g EXCEPT !.matching = @ \ {AlarmId_from(new_alarm)}]
         IN IF AlarmId_from(new_alarm) \in g.matching
            THEN [flt |-> h, sent |-> update_alarm_counts(h), updated |-> TRUE]
            ELSE [flt |-> g, sent |-> snt, updated |-> FALSE]

\* handle_notification that never removes from ignore
handle_notification_sticky(f, snt, new_alarm) ==
    IF new_alarm.state = 128
    THEN [flt |-> f, sent |-> snt, updated |-> FALSE]
    ELSE IF evaluate_filter(new_alarm)
    THEN IF AlarmId_from(new_alarm) \notin f.matching
         THEN LET g == [f EXCEPT !.matching = @ \cup {AlarmId_from(new_alarm)}]
              IN [flt |-> g, sent |-> update_alarm_counts(g), updated |-> TRUE]
         ELSE [flt |-> f, sent |-> snt, updated |-> FALSE]
    ELSE LET h == [f EXCEPT !.matching = @ \ {AlarmId_from(new_alarm)}]
         IN IF AlarmId_from(new_alarm) \in f.matching
            THEN [flt |-> h, sent |-> update_alarm_counts(h), updated |-> TRUE]
            ELSE [flt |-> f, sent |-> snt, updated |-> FALSE]

\* AlarmFilterState::handle_notification: the filter and the value of the
\* watch channel after the call
handle_notification(f, snt, new_alarm) ==
    IF new_alarm.state = 128
    THEN [flt |-> f, sent |-> snt, updated |-> FALSE]
    ELSE IF evaluate_filter(new_alarm)
    THEN IF AlarmId_from(new_alarm) \notin f.matching
         THEN LET g == [f EXCEPT !.matching = @ \cup {AlarmId_from(new_alarm)}]
              IN [flt |-> g, sent |-> update_alarm_counts(g), updated |-> TRUE]
         ELSE [flt |-> f, sent |-> snt, updated |-> FALSE]
    ELSE LET g == IF ~f.ignore_permanent
                  THEN [f EXCEPT !.ignore = @ \ {AlarmId_from(new_alarm)}]
                  ELSE f
             h == [g EXCEPT !.matching = @ \ {AlarmId_from(new_alarm)}]
         IN IF AlarmId_from(new_alarm) \in g.matching
            THEN [flt |-> h, sent |-> update_alarm_counts(h), updated |-> TRUE]
            ELSE [flt |-> g, sent |-> snt, updated |-> FALSE]

\* AlarmContext::ignore_matched_alarms
ignore_matched_alarms(f, permanent) ==
    LET g == [f EXCEPT !.ignore = f.matching, !.ignore_permanent = permanent]
    IN [flt |-> g, sent |-> update_alarm_counts(g), updated |-> TRUE]

\* AlarmContext::restore_ignored_alarms
restore_ignored_alarms(f) ==
    LET g == [f EXCEPT !.ignore = {}]
    IN [flt |-> g, sent |-> update_alarm_counts(g), updated |-> TRUE]

\* AlarmContext::get_filter_count
get_filter_count == matching_count(flt)

\* AlarmCondition
Conds == {"None", "Any", "Inc", "Dec"}

\* a check that takes a missing old count for a change
check_first(cond, new_count, old_count) ==
    CASE cond = "None" -> new_count = 0
      [] cond = "Any" -> new_count > 0
      [] cond = "Inc" -> old_count = None \/ new_count > old_count
      [] cond = "Dec" -> old_count = None \/ new_count < old_count

\* AlarmCondition::check; old_count is None or Some(v)
check(cond, new_count, old_count) ==
    CASE cond = "None" -> new_count = 0
      [] cond = "Any" -> new_count > 0
      [] cond = "Inc" -> old_count # None /\ new_count > old_count
      [] cond = "Dec" -> old_count # None /\ new_count < old_count

\* watch::Sender::send as the receiver of the pending future sees it: the
\* channel holds a version the receiver has not seen
observers_send(w) == [w EXCEPT !.unseen = TRUE]

\* AlarmContext::wait_alarm_filter: the count it returns; the future is
\* the receiver state kept in wal
wait_alarm_filter(f) == matching_count(f)

\* the future of WaitAlarmAction::run before its first poll
NewWaitAlarm(cond) ==
    [pc |-> "none", cond |-> cond, prev |-> None, unseen |-> FALSE,
     obs |-> <<>>, via |-> "none"]

\* history: the last two counts the action observed
Observe(obs, v) == IF Len(obs) < 2 THEN Append(obs, v) ELSE <<obs[2], v>>

\* WaitAlarmAction::run from the top of the loop to the await of the
\* future, whose first poll marks the current version as seen
wait_alarm_call(w, f) ==
    LET value == wait_alarm_filter(f) IN
    IF check(w.cond, value, w.prev)
    THEN [w EXCEPT !.pc = "done", !.via = "call", !.obs = Observe(@, value)]
    ELSE [w EXCEPT !.pc = "wait", !.prev = value, !.unseen = FALSE,
                   !.obs = Observe(@, value)]

\* WaitAlarmAction::run after wait.await returned the value of the channel
wait_alarm_resume(w, f, snt) ==
    IF check(w.cond, snt, w.prev)
    THEN [w EXCEPT !.pc = "done", !.via = "broadcast", !.obs = Observe(@, snt)]
    ELSE wait_alarm_call([w EXCEPT !.prev = snt, !.obs = Observe(@, snt)], f)

\* AlarmContext::handle_notification, called for every alarm of
\* subscribe_alarms and of a NotifySubscribeAlarm message
HandleNotification(new_alarm) ==
    LET r == handle_notification(flt, sent, new_alarm)
    IN /\ flt' = r.flt
       /\ sent' = r.sent
       /\ latest' = IF new_alarm.state = 128 THEN latest
                    ELSE [latest EXCEPT ![new_alarm.id] = new_alarm]
       /\ released' = IF AlarmId_from(new_alarm) \in flt.ignore \ r.flt.ignore
                      THEN released \cup {AlarmId_from(new_alarm)}
                      ELSE released
       /\ lastOp' = [op |-> "handle_notification", permanent |-> FALSE,
                   tags |-> IF r.updated THEN update_tags(r.flt) ELSE <<>>,
                   state |-> new_alarm.state]
       /\ wal' = IF r.updated THEN observers_send(wal) ELSE wal
       /\ UNCHANGED <<clipVars, smVars, tagVars, actVars, runVars, parseVars, lockVars>>

\* a call of AlarmFunctions::ignore_matched_alarms
IgnoreCall(permanent) ==
    LET r == ignore_matched_alarms(flt, permanent)
    IN /\ flt' = r.flt
       /\ sent' = r.sent
       /\ lastOp' = [op |-> "ignore_matched_alarms", permanent |-> permanent,
                   tags |-> update_tags(r.flt), state |-> 0]
       /\ wal' = observers_send(wal)
       /\ UNCHANGED <<latest, released>>
       /\ UNCHANGED <<clipVars, smVars, tagVars, actVars, runVars, parseVars, lockVars>>

\* a call of AlarmFunctions::restore_ignored_alarms
RestoreCall ==
    LET r == restore_ignored_alarms(flt)
    IN /\ flt' = r.flt
       /\ sent' = r.sent
       /\ lastOp' = [op |-> "restore_ignored_alarms", permanent |-> FALSE,
                   tags |-> update_tags(r.flt), state |-> 0]
       /\ wal' = observers_send(wal)
       /\ UNCHANGED <<latest, released>>
       /\ UNCHANGED <<clipVars, smVars, tagVars, actVars, runVars, parseVars, lockVars>>

\* AlarmFunctionAction::run of the action that action_conf_to_action builds
\* from ActionType::IgnoreAlarms {filter, permanent}: op is AlarmOp::Ignore
IgnoreAlarmsRun(permanent) ==
    LET r == ignore_matched_alarms(flt, FALSE)
    IN /\ flt' = r.flt
       /\ sent' = r.sent
       /\ lastOp' = [op |-> "IgnoreAlarms", permanent |-> permanent,
                   tags |-> update_tags(r.flt), state |-> 0]
       /\ wal' = observers_send(wal)
       /\ UNCHANGED <<latest, released>>
       /\ UNCHANGED <<clipVars, smVars, tagVars, actVars, runVars, parseVars, lockVars>>

\* AlarmFunctionAction::run of the action built from ActionType::RestoreAlarms
RestoreAlarmsRun ==
    LET r == restore_ignored_alarms(flt)
    IN /\ flt' = r.flt
       /\ sent' = r.sent
       /\ lastOp' = [op |-> "RestoreAlarms", permanent |-> FALSE,
                   tags |-> update_tags(r.flt), state |-> 0]
       /\ wal' = observers_send(wal)
       /\ UNCHANGED <<latest, released>>
       /\ UNCHANGED <<clipVars, smVars, tagVars, actVars, runVars, parseVars, lockVars>>

\* the ready future that the last AlarmFunctionAction::run returned is
\* polled: Ok(())
AlarmFutPoll ==
    /\ lastOp.op \in {"IgnoreAlarms", "RestoreAlarms"}
    /\ lastOp' = [lastOp EXCEPT !.op = "polled " \o @]
    /\ UNCHANGED <<flt, sent, latest, released, wal>>
    /\ UNCHANGED <<clipVars, smVars, tagVars, actVars, runVars, parseVars, lockVars>>

\* the ready future that the last AlarmFunctionAction::run returned is
\* dropped without a poll
AlarmFutDrop ==
    /\ lastOp.op \in {"IgnoreAlarms", "RestoreAlarms"}
    /\ lastOp' = [lastOp EXCEPT !.op = "dropped " \o @]
    /\ UNCHANGED <<flt, sent, latest, released, wal>>
    /\ UNCHANGED <<clipVars, smVars, tagVars, actVars, runVars, parseVars, lockVars>>

\* WaitAlarmAction::run is called and its future polled for the first time
WaitAlarmRun(cond) ==
    /\ wal.pc \in {"none", "done", "dropped"}
    /\ wal' = wait_alarm_call(NewWaitAlarm(cond), flt)
    /\ UNCHANGED <<flt, sent, latest, released, lastOp>>
    /\ UNCHANGED <<clipVars, smVars, tagVars, actVars, runVars, parseVars, lockVars>>

\* the future is polled after rx.changed() became ready
WaitAlarmResume ==
    /\ wal.pc = "wait"
    /\ wal.unseen
    /\ wal' = wait_alarm_resume(wal, flt, sent)
    /\ UNCHANGED <<flt, sent, latest, released, lastOp>>
    /\ UNCHANGED <<clipVars, smVars, tagVars, actVars, runVars, parseVars, lockVars>>

\* the future is dropped while it waits
WaitAlarmDrop ==
    /\ wal.pc = "wait"
    /\ wal' = [wal EXCEPT !.pc = "dropped"]
    /\ UNCHANGED <<flt, sent, latest, released, lastOp>>
    /\ UNCHANGED <<clipVars, smVars, tagVars, actVars, runVars, parseVars, lockVars>>

NextAlarm ==
    \/ \E new_alarm \in Alarms : HandleNotification(new_alarm)
    \/ \E permanent \in BOOLEAN : IgnoreCall(permanent)
    \/ RestoreCall
    \/ \E permanent \in BOOLEAN : IgnoreAlarmsRun(permanent)
    \/ RestoreAlarmsRun
    \/ \E cond \in Conds : WaitAlarmRun(cond)
    \/ WaitAlarmResume
    \/ WaitAlarmDrop

\* ------------------------------------------------- actions/wait_tag.rs

\* a check for Changed that takes a missing old value for a change
check_changed_first(new_tag, old_tag) == old_tag = None \/ new_tag # old_tag

\* TagCondition::check for TagCondition::Changed
check_changed(new_tag, old_tag) == old_tag # None /\ new_tag # old_tag

\* the future of WaitTagAction::run before its first poll: prev = None.
\* start, obs, via, checks and casts are history: the value wait_value
\* returned at the start, the last two values the action observed, where it
\* completed, and the numbers of checks and of values wait.await returned
NewWaitTag ==
    [pc |-> "none", prev |-> None, seen |-> 0, start |-> None, obs |-> <<>>,
     via |-> "none", checks |-> 0, casts |-> 0]

\* history: a counter that stops at 2
Counted(n) == IF n < 2 THEN n + 1 ELSE n

\* WaitTagAction::run from dispatcher.wait_value to the await of the
\* future, whose first poll marks the current version as seen
wait_tag_call(w, t) ==
    LET value == t.state IN
    IF value # None /\ check_changed(value, w.prev)
    THEN [w EXCEPT !.pc = "done", !.via = "call", !.obs = Observe(@, value),
                   !.checks = Counted(@)]
    ELSE [w EXCEPT !.pc = "wait", !.prev = value,
                   !.seen = borrow_and_update(t, clone_receiver(t)),
                   !.obs = Observe(@, value),
                   !.checks = IF value # None THEN Counted(@) ELSE @]

\* WaitTagAction::run after wait.await returned the value of the channel
wait_tag_resume(w, t) ==
    LET value == t.value IN
    IF check_changed(value, w.prev)
    THEN [w EXCEPT !.pc = "done", !.via = "broadcast", !.obs = Observe(@, value),
                   !.checks = Counted(@), !.casts = Counted(@)]
    ELSE wait_tag_call([w EXCEPT !.prev = value, !.obs = Observe(@, value),
                                 !.checks = Counted(@), !.casts = Counted(@)], t)

\* WaitTagAction::run is called and its future polled for the first time
WaitTagRun ==
    /\ wtg.pc \in {"none", "done", "dropped"}
    /\ wtg' = wait_tag_call([NewWaitTag EXCEPT !.start = tag.state], tag)
    /\ UNCHANGED <<tag, wait, callVer, setReq, egress, handlers, timedOut, acked>>
    /\ UNCHANGED <<clipVars, smVars, actVars, almVars, runVars, parseVars, lockVars>>

\* the future is polled after rx.changed() became ready
WaitTagResume ==
    /\ wtg.pc = "wait"
    /\ has_changed(tag, wtg.seen)
    /\ wtg' = wait_tag_resume(wtg, tag)
    /\ UNCHANGED <<tag, wait, callVer, setReq, egress, handlers, timedOut, acked>>
    /\ UNCHANGED <<clipVars, smVars, actVars, almVars, runVars, parseVars, lockVars>>

\* the future is dropped while it waits
WaitTagDrop ==
    /\ wtg.pc = "wait"
    /\ wtg' = [wtg EXCEPT !.pc = "dropped"]
    /\ UNCHANGED <<tag, wait, callVer, setReq, egress, handlers, timedOut, acked>>
    /\ UNCHANGED <<clipVars, smVars, actVars, almVars, runVars, parseVars, lockVars>>

\* a WaitTagAction with the tag changes of the ingress loop and of
\* SetTagAction
NextWaitTag ==
    \/ \E v \in TagVals : TagChanged(v)
    \/ \E r \in SetTags, v \in TagVals : SetTag(r, v)
    \/ WaitTagRun
    \/ WaitTagResume
    \/ WaitTagDrop

\* SetTagAction::run calls in a behaviour of NextEffect
MaxEffReq == 1
\* the notifications of NextEffect: alarm 1 is raised with any priority
EffAlarms == {a \in Alarms : a.id = 1 /\ a.state = Raised}

\* the actions SetTagAction and AlarmFunctionAction with the ingress loop
\* and the alarm notifications
NextEffect ==
    \/ \E r \in 1..MaxEffReq, v \in TagVals : SetTag(r, v)
    \/ \E r \in SetTags : SetTagDrop(r)
    \/ EgressRecv
    \/ NotifyWriteTag
    \/ OtherMessage
    \/ \E r \in SetTags : SetTagAck(r)
    \/ \E r \in SetTags : SetTagTimeout(r)
    \/ \E new_alarm \in EffAlarms : HandleNotification(new_alarm)
    \/ \E permanent \in BOOLEAN : IgnoreAlarmsRun(permanent)
    \/ RestoreAlarmsRun
    \/ AlarmFutPoll
    \/ AlarmFutDrop

\* ------------------------------------------------------ alarm_filter.rs
\* A text is a sequence of characters.  A filter tree (BoolOp) is a tuple
\* whose first element names the variant: <<"Not", t>>, <<"And", l, r>>,
\* <<"Or", l, r>>, <<"StringEqual", criterion, value>>,
\* <<"StateEqual", criterion, state>>, <<"IntEqual", criterion, n>>,
\* <<"IntLess", criterion, n>>, <<"IntLessEqual", criterion, n>>.

\* alphabetic characters (alpha1)
Letters == {"A", "B", "C", "D", "E", "F", "G", "H", "I", "J", "K", "L", "M", "N", "O", "P", "Q", "R", "S", "T", "U", "V", "W", "X", "Y", "Z", "a", "b", "c", "d", "e", "f", "g", "h", "i", "j", "k", "l", "m", "n", "o", "p", "q", "r", "s", "t", "u", "v", "w", "x", "y", "z"}

\* decimal digits (digit1)
DigitChars == <<"0", "1", "2", "3", "4", "5", "6", "7", "8", "9">>

\* white space (multispace0)
Space == {" "}

\* enum AlarmState
AlarmStates == {"Normal", "Raised", "RaisedCleared", "RaisedAcknowledged", "RaisedAcknowledgedCleared", "RaisedClearedAcknowledged", "Removed"}

\* enum StringCriterion
StringCriteria == {"AlarmClassName", "AlarmName"}

\* the IntCriterion variants that int_criterion accepts
IntCriteria == {"Id", "InstanceId", "Priority"}

\* AlarmState::as_str
state_as_str(state) ==
    CASE state = "Normal" -> <<"N", "o", "r", "m", "a", "l">>
      [] state = "Raised" -> <<"R", "a", "i", "s", "e", "d">>
      [] state = "RaisedCleared" -> <<"R", "a", "i", "s", "e", "d", "C", "l", "e", "a", "r", "e", "d">>
      [] state = "RaisedAcknowledged" -> <<"R", "a", "i", "s", "e", "d", "A", "c", "k", "n", "o", "w", "l", "e", "d", "g", "e", "d">>
      [] state = "RaisedAcknowledgedCleared" -> <<"R", "a", "i", "s", "e", "d", "A", "c", "k", "n", "o", "w", "l", "e", "d", "g", "e", "d", "C", "l", "e", "a", "r", "e", "d">>
      [] state = "RaisedClearedAcknowledged" -> <<"R", "a", "i", "s", "e", "d", "C", "l", "e", "a", "r", "e", "d", "A", "c", "k", "n", "o", "w", "l", "e", "d", "g", "e", "d">>
      [] state = "Removed" -> <<"R", "e", "m", "o", "v", "e", "d">>

\* StringCriterion::as_str
string_as_str(criterion) ==
    CASE criterion = "AlarmClassName" -> <<"A", "l", "a", "r", "m", "C", "l", "a", "s", "s", "N", "a", "m", "e">>
      [] criterion = "AlarmName" -> <<"N", "a", "m", "e">>

\* IntCriterion::as_str
int_as_str(criterion) ==
    CASE criterion = "Id" -> <<"I", "D">>
      [] criterion = "InstanceId" -> <<"I", "n", "s", "t", "a", "n", "c", "e", "I", "D">>
      [] criterion = "Priority" -> <<"P", "r", "i", "o", "r", "i", "t", "y">>
      [] criterion = "AlarmState" -> <<"S", "t", "a", "t", "e">>

\* u32::to_string
RECURSIVE u32_to_string(_)
u32_to_string(n) ==
    IF n < 10 THEN <<DigitChars[n + 1]>>
    ELSE u32_to_string(n \div 10) \o <<DigitChars[(n % 10) + 1]>>

\* i32::to_string
i32_to_string(n) == IF n < 0 THEN <<"-">> \o u32_to_string(-n) ELSE u32_to_string(n)

\* a rendering of a string value that writes a single quote as ''
RECURSIVE escape_quotes(_)
escape_quotes(value) ==
    IF value = <<>> THEN <<>>
    ELSE (IF Head(value) = "'" THEN <<"'", "'">> ELSE <<Head(value)>>)
         \o escape_quotes(Tail(value))

\* the value of a StringEqual as to_string writes it between the quotes
string_value(value) == value

\* BoolOp::to_string
RECURSIVE to_string(_)
to_string(t) ==
    CASE t[1] = "Not" -> <<"N", "O", "T", " ", "(">> \o to_string(t[2]) \o <<")">>
      [] t[1] = "And" -> <<"(">> \o to_string(t[2]) \o <<")", " ", "A", "N", "D", " ", "(">> \o to_string(t[3]) \o <<")">>
      [] t[1] = "Or" -> <<"(">> \o to_string(t[2]) \o <<")", " ", "O", "R", " ", "(">> \o to_string(t[3]) \o <<")">>
      [] t[1] = "StringEqual" -> string_as_str(t[2]) \o <<" ", "=", " ", "'">> \o string_value(t[3]) \o <<"'">>
      [] t[1] = "StateEqual" -> int_as_str(t[2]) \o <<" ", "=", " ", "'">> \o state_as_str(t[3]) \o <<"'">>
      [] t[1] = "IntEqual" -> int_as_str(t[2]) \o <<" ", "=", " ">> \o i32_to_string(t[3])
      [] t[1] = "IntLess" -> int_as_str(t[2]) \o <<" ", "<", " ">> \o i32_to_string(t[3])
      [] t[1] = "IntLessEqual" -> int_as_str(t[2]) \o <<" ", "<", "=", " ">> \o i32_to_string(t[3])

\* the result of a parser: st is "ok", "err" (nom::Err::Error, the next
\* alternative is tried) or "fail" (nom::Err::Failure); pos is the index of
\* the first character that was not consumed
ParseOk(at, val) == [st |-> "ok", pos |-> at, val |-> val]

ParseErr == [st |-> "err", pos |-> 0, val |-> <<>>]

ParseFailure == [st |-> "fail", pos |-> 0, val |-> <<>>]

\* nom's tag(kw): the position after kw, or 0
nom_tag(t, p, kw) ==
    IF p + Len(kw) - 1 <= Len(t) /\ SubSeq(t, p, p + Len(kw) - 1) = kw
    THEN p + Len(kw) ELSE 0

\* alt over tags, in the order of the list: [kw, pos], pos is 0 if none matches
RECURSIVE alt_tag(_, _, _)
alt_tag(t, p, kws) ==
    IF kws = <<>> THEN [kw |-> <<>>, pos |-> 0]
    ELSE IF nom_tag(t, p, Head(kws)) # 0 THEN [kw |-> Head(kws), pos |-> nom_tag(t, p, Head(kws))]
    ELSE alt_tag(t, p, Tail(kws))

\* multispace0: the position after the white space
RECURSIVE multispace0(_, _)
multispace0(t, p) == IF p <= Len(t) /\ t[p] \in Space THEN multispace0(t, p + 1) ELSE p

\* the position after the longest run of characters of the set
RECURSIVE take_while(_, _, _)
take_while(t, p, set) == IF p <= Len(t) /\ t[p] \in set THEN take_while(t, p + 1, set) ELSE p

\* alpha1: the position after the letters, or 0 if there is none
alpha1(t, p) == IF take_while(t, p, Letters) > p THEN take_while(t, p, Letters) ELSE 0

Range10 == {DigitChars[i] : i \in 1..10}

\* digit1: the position after the digits, or 0 if there is none
digit1(t, p) == IF take_while(t, p, Range10) > p THEN take_while(t, p, Range10) ELSE 0

\* the number written by a sequence of digits
RECURSIVE digits_value(_)
digits_value(s) ==
    IF s = <<>> THEN 0
    ELSE 10 * digits_value(SubSeq(s, 1, Len(s) - 1))
         + (CHOOSE d \in 0..9 : DigitChars[d + 1] = s[Len(s)])

\* nom::character::complete::i32: an optional sign and digits
parse_i32(t, p) ==
    LET signed == p <= Len(t) /\ t[p] \in {"-", "+"}
        q == IF signed THEN p + 1 ELSE p
        e == digit1(t, q)
    IN  IF e = 0 THEN ParseErr
        ELSE ParseOk(e, (IF signed /\ t[p] = "-" THEN -1 ELSE 1)
                        * digits_value(SubSeq(t, q, e - 1)))

\* fold_many0(alt((none_of("'"), map(nom_tag("''"), |_| '\'')))) of string_literal
RECURSIVE fold_literal(_, _, _)
fold_literal(t, q, acc) ==
    IF q <= Len(t) /\ t[q] # "'" THEN fold_literal(t, q + 1, Append(acc, t[q]))
    ELSE IF q + 1 <= Len(t) /\ t[q] = "'" /\ t[q + 1] = "'"
         THEN fold_literal(t, q + 2, Append(acc, "'"))
         ELSE [pos |-> q, val |-> acc]

\* string_literal
string_literal(t, p) ==
    IF p <= Len(t) /\ t[p] = "'"
    THEN LET f == fold_literal(t, p + 1, <<>>)
         IN  IF f.pos <= Len(t) /\ t[f.pos] = "'"
             THEN ParseOk(f.pos + 1, f.val) ELSE ParseErr
    ELSE ParseErr

\* char::to_lowercase for the letters of the alphabet
Lower(c) ==
    CASE
         c = "A" -> "a"
      [] c = "B" -> "b"
      [] c = "C" -> "c"
      [] c = "D" -> "d"
      [] c = "E" -> "e"
      [] c = "F" -> "f"
      [] c = "G" -> "g"
      [] c = "H" -> "h"
      [] c = "I" -> "i"
      [] c = "J" -> "j"
      [] c = "K" -> "k"
      [] c = "L" -> "l"
      [] c = "M" -> "m"
      [] c = "N" -> "n"
      [] c = "O" -> "o"
      [] c = "P" -> "p"
      [] c = "Q" -> "q"
      [] c = "R" -> "r"
      [] c = "S" -> "s"
      [] c = "T" -> "t"
      [] c = "U" -> "u"
      [] c = "V" -> "v"
      [] c = "W" -> "w"
      [] c = "X" -> "x"
      [] c = "Y" -> "y"
      [] c = "Z" -> "z"
      [] OTHER -> c

\* the lower-case string with the separators ',' and '/' written as ' '
normalize_state(s) ==
    [i \in 1..Len(s) |-> IF s[i] \in {",", "/"} THEN " " ELSE Lower(s[i])]

\* AlarmState::try_from(u32)
state_try_from(n) ==
    CASE n = 0 -> "Normal"
      [] n = 1 -> "Raised"
      [] n = 2 -> "RaisedCleared"
      [] n = 5 -> "RaisedAcknowledged"
      [] n = 6 -> "RaisedAcknowledgedCleared"
      [] n = 7 -> "RaisedClearedAcknowledged"
      [] n = 8 -> "Removed"
      [] OTHER -> "invalid"

\* AlarmState::from_str: a state, or "invalid"
from_str(s) ==
    IF s # <<>> /\ (\A i \in 1..Len(s) : s[i] \in Range10)
    THEN state_try_from(digits_value(s))
    ELSE LET lc == normalize_state(s) IN
         CASE lc = <<"n", "o", "r", "m", "a", "l">> -> "Normal"
           [] lc = <<"i", "n", "c", "o", "m", "i", "n", "g">> -> "Raised"
           [] lc = <<"i", "n">> -> "Raised"
           [] lc = <<"r", "a", "i", "s", "e", "d">> -> "Raised"
           [] lc = <<"i", "n", "c", "o", "m", "i", "n", "g", " ", "o", "u", "t", "g", "o", "i", "n", "g">> -> "RaisedCleared"
           [] lc = <<"i", "n", " ", "o", "u", "t">> -> "RaisedCleared"
           [] lc = <<"r", "a", "i", "s", "e", "d", "c", "l", "e", "a", "r", "e", "d">> -> "RaisedCleared"
           [] lc = <<"i", "n", "c", "o", "m", "i", "n", "g", " ", "a", "c", "k", "n", "o", "w", "l", "e", "d", "g", "e", "d">> -> "RaisedAcknowledged"
           [] lc = <<"i", "n", " ", "a", "c", "k">> -> "RaisedAcknowledged"
           [] lc = <<"r", "a", "i", "s", "e", "d", "a", "c", "k", "n", "o", "w", "l", "e", "d", "g", "e", "d">> -> "RaisedAcknowledged"
           [] lc = <<"i", "n", "c", "o", "m", "i", "n", "g", " ", "a", "c", "k", "n", "o", "w", "l", "e", "d", "g", "e", "d", " ", "o", "u", "t", "g", "o", "i", "n", "g">> -> "RaisedAcknowledgedCleared"
           [] lc = <<"i", "n", " ", "a", "c", "k", " ", "o", "u", "t">> -> "RaisedAcknowledgedCleared"
           [] lc = <<"r", "a", "i", "s", "e", "d", "a", "c", "k", "n", "o", "w", "l", "e", "d", "g", "e", "d", "c", "l", "e", "a", "r", "e", "d">> -> "RaisedAcknowledgedCleared"
           [] lc = <<"i", "n", "c", "o", "m", "i", "n", "g", " ", "o", "u", "t", "g", "o", "i", "n", "g", " ", "a", "c", "k", "n", "o", "w", "l", "e", "d", "g", "e", "d">> -> "RaisedClearedAcknowledged"
           [] lc = <<"i", "n", " ", "o", "u", "t", " ", "a", "c", "k">> -> "RaisedClearedAcknowledged"
           [] lc = <<"r", "a", "i", "s", "e", "d", "c", "l", "e", "a", "r", "e", "d", "a", "c", "k", "n", "o", "w", "l", "e", "d", "g", "e", "d">> -> "RaisedClearedAcknowledged"
           [] lc = <<"r", "e", "m", "o", "v", "e", "d">> -> "Removed"
           [] OTHER -> "invalid"

\* string_criterion
string_criterion(t, p) ==
    LET a == alpha1(t, p)
        op == IF a = 0 THEN [kw |-> <<>>, pos |-> 0]
              ELSE alt_tag(t, multispace0(t, a), <<<<"=">>, <<"!", "=">>>>)
        v == IF op.pos = 0 THEN ParseErr ELSE string_literal(t, multispace0(t, op.pos))
        field == SubSeq(t, p, a - 1)
    IN  IF v.st # "ok" THEN ParseErr
        ELSE IF field \notin {<<"A", "l", "a", "r", "m", "C", "l", "a", "s", "s", "N", "a", "m", "e">>, <<"N", "a", "m", "e">>} THEN ParseErr
        ELSE LET criterion == IF field = <<"A", "l", "a", "r", "m", "C", "l", "a", "s", "s", "N", "a", "m", "e">> THEN "AlarmClassName" ELSE "AlarmName"
             IN  IF op.kw = <<"=">>
                 THEN ParseOk(v.pos, <<"StringEqual", criterion, v.val>>)
                 ELSE ParseOk(v.pos, <<"Not", <<"StringEqual", criterion, v.val>>>>)

\* int_criterion
int_criterion(t, p) ==
    LET a == alpha1(t, p)
        op == IF a = 0 THEN [kw |-> <<>>, pos |-> 0]
              ELSE alt_tag(t, multispace0(t, a),
                           <<<<"!", "=">>, <<"=">>, <<"<", "=">>, <<">", "=">>, <<"<">>, <<">">>>>)
        v == IF op.pos = 0 THEN ParseErr ELSE parse_i32(t, multispace0(t, op.pos))
        field == SubSeq(t, p, a - 1)
    IN  IF v.st # "ok" THEN ParseErr
        ELSE IF field \notin {<<"I", "D">>, <<"I", "n", "s", "t", "a", "n", "c", "e", "I", "D">>, <<"P", "r", "i", "o", "r", "i", "t", "y">>} THEN ParseErr
        ELSE LET criterion == CASE field = <<"I", "D">> -> "Id"
                                [] field = <<"I", "n", "s", "t", "a", "n", "c", "e", "I", "D">> -> "InstanceId"
                                [] field = <<"P", "r", "i", "o", "r", "i", "t", "y">> -> "Priority"
             IN  ParseOk(v.pos,
                    CASE op.kw = <<"=">> -> <<"IntEqual", criterion, v.val>>
                      [] op.kw = <<"!", "=">> -> <<"Not", <<"IntEqual", criterion, v.val>>>>
                      [] op.kw = <<"<">> -> <<"IntLess", criterion, v.val>>
                      [] op.kw = <<"<", "=">> -> <<"IntLessEqual", criterion, v.val>>
                      [] op.kw = <<">", "=">> -> <<"Not", <<"IntLess", criterion, v.val>>>>
                      [] op.kw = <<">">> -> <<"Not", <<"IntLessEqual", criterion, v.val>>>>)

\* state_criterion
state_criterion(t, p) ==
    LET a == nom_tag(t, p, <<"S", "t", "a", "t", "e">>)
        op == IF a = 0 THEN [kw |-> <<>>, pos |-> 0]
              ELSE alt_tag(t, multispace0(t, a), <<<<"!", "=">>, <<"=">>>>)
        q == multispace0(t, op.pos)
        lit == IF op.pos = 0 THEN ParseErr ELSE string_literal(t, q)
        v == IF op.pos = 0 THEN ParseErr
             ELSE IF lit.st = "ok" THEN lit
             ELSE IF digit1(t, q) # 0
                  THEN ParseOk(digit1(t, q), SubSeq(t, q, digit1(t, q) - 1))
                  ELSE ParseErr
    IN  IF v.st # "ok" THEN ParseErr
        ELSE IF from_str(v.val) = "invalid" THEN ParseFailure
        ELSE IF op.kw = <<"=">>
             THEN ParseOk(v.pos, <<"StateEqual", "AlarmState", from_str(v.val)>>)
             ELSE ParseOk(v.pos, <<"Not", <<"StateEqual", "AlarmState", from_str(v.val)>>>>)

\* alt of two parser results: the first unless it is a recoverable error
alt(r1, r2) == IF r1.st = "err" THEN r2 ELSE r1

\* parse_criterion
parse_criterion(t, p) ==
    alt(state_criterion(t, p), alt(int_criterion(t, p), string_criterion(t, p)))

\* the value of F at e, with e evaluated once
Bind(e, F(_)) == CHOOSE y \in {F(x) : x \in {e}} : TRUE

RECURSIVE parse_or(_, _)
RECURSIVE parse_and(_, _)
RECURSIVE parse_not(_, _)
RECURSIVE parse_arg(_, _)
RECURSIVE parse_parenthesis(_, _)
RECURSIVE fold_or(_, _, _)
RECURSIVE fold_and(_, _, _)

\* parse_parenthesis
parse_parenthesis(t, p) ==
    IF nom_tag(t, p, <<"(">>) = 0 THEN ParseErr
    ELSE Bind(parse_or(t, p + 1), LAMBDA r :
             IF r.st # "ok" THEN r
             ELSE IF nom_tag(t, r.pos, <<")">>) = 0 THEN ParseErr
             ELSE ParseOk(r.pos + 1, r.val))

\* parse_arg
parse_arg(t, p) ==
    Bind(parse_parenthesis(t, p), LAMBDA r :
        IF r.st = "err" THEN parse_criterion(t, p) ELSE r)

\* parse_not
parse_not(t, p) ==
    Bind(nom_tag(t, p, <<"N", "O", "T">>), LAMBDA n :
        Bind(IF n = 0 THEN ParseErr ELSE parse_arg(t, multispace0(t, n)), LAMBDA r :
            IF r.st = "ok" THEN ParseOk(r.pos, <<"Not", r.val>>)
            ELSE IF r.st = "fail" THEN r
            ELSE parse_arg(t, p)))

\* the fold_many0 of parse_and; acc is <<>> for None
fold_and(t, p, acc) ==
    Bind(nom_tag(t, multispace0(t, p), <<"A", "N", "D">>), LAMBDA k :
        Bind(IF k = 0 THEN ParseErr ELSE parse_not(t, multispace0(t, k)), LAMBDA r :
            IF r.st = "err" THEN ParseOk(p, acc)
            ELSE IF r.st = "fail" THEN r
            ELSE fold_and(t, r.pos, IF acc = <<>> THEN r.val ELSE <<"And", acc, r.val>>)))

\* parse_and
parse_and(t, p) ==
    Bind(parse_not(t, p), LAMBDA left :
        IF left.st # "ok" THEN left
        ELSE Bind(fold_and(t, left.pos, <<>>), LAMBDA right :
                 IF right.st # "ok" THEN right
                 ELSE IF right.val = <<>> THEN ParseOk(right.pos, left.val)
                 ELSE ParseOk(right.pos, <<"And", left.val, right.val>>)))

\* the fold_many0 of parse_or; acc is <<>> for None
fold_or(t, p, acc) ==
    Bind(nom_tag(t, multispace0(t, p), <<"O", "R">>), LAMBDA k :
        Bind(IF k = 0 THEN ParseErr ELSE parse_and(t, multispace0(t, k)), LAMBDA r :
            IF r.st = "err" THEN ParseOk(p, acc)
            ELSE IF r.st = "fail" THEN r
            ELSE fold_or(t, r.pos, IF acc = <<>> THEN r.val ELSE <<"Or", acc, r.val>>)))

\* parse_or
parse_or(t, p) ==
    Bind(parse_and(t, p), LAMBDA left :
        IF left.st # "ok" THEN left
        ELSE Bind(fold_or(t, left.pos, <<>>), LAMBDA right :
                 IF right.st # "ok" THEN right
                 ELSE IF right.val = <<>> THEN ParseOk(right.pos, left.val)
                 ELSE ParseOk(right.pos, <<"Or", left.val, right.val>>)))

\* parse_filter: <<"Ok", tree>> or <<"Err">>
parse_filter(input) ==
    Bind(parse_or(input, 1), LAMBDA r :
        IF r.st = "ok" /\ r.pos = Len(input) + 1 THEN <<"Ok", r.val>> ELSE <<"Err">>)

\* the characters of string values
ValueChars == {"a", "'"}

\* the string values of at most MaxStrLen characters
StrValues == UNION {[1..n -> ValueChars] : n \in 0..MaxStrLen}

\* the integer values of criteria
IntValues == {-1, 0, 7, 10}

\* the criteria the filter language has
Criteria ==
    {<<"StringEqual", c, v>> : c \in StringCriteria, v \in StrValues}
    \cup {<<"StateEqual", "AlarmState", s>> : s \in AlarmStates}
    \cup {<<op, c, n>> : op \in {"IntEqual", "IntLess", "IntLessEqual"},
                         c \in IntCriteria, n \in IntValues}

\* the criteria that And and Or combine a tree with
Operands ==
    {<<"StringEqual", "AlarmName", <<"a">>>>,
     <<"StateEqual", "AlarmState", "RaisedCleared">>,
     <<"IntLess", "Priority", 7>>}

\* a filter tree is chosen: a criterion
FilterCriterion(c) ==
    /\ fpc = "new"
    /\ ftree' = c
    /\ fpc' = "tree"
    /\ UNCHANGED <<ftext, fparsed, fops>>
    /\ UNCHANGED <<clipVars, smVars, tagVars, actVars, almVars, runVars, lockVars>>

\* the tree is wrapped in Not
FilterNot ==
    /\ fpc = "tree"
    /\ fops < MaxOps
    /\ fops' = fops + 1
    /\ ftree' = <<"Not", ftree>>
    /\ UNCHANGED <<ftext, fparsed, fpc>>
    /\ UNCHANGED <<clipVars, smVars, tagVars, actVars, almVars, runVars, lockVars>>

\* the tree becomes an argument of And or Or
FilterBinary(op, c, left) ==
    /\ fpc = "tree"
    /\ fops < MaxOps
    /\ fops' = fops + 1
    /\ ftree' = IF left THEN <<op, ftree, c>> ELSE <<op, c, ftree>>
    /\ UNCHANGED <<ftext, fparsed, fpc>>
    /\ UNCHANGED <<clipVars, smVars, tagVars, actVars, almVars, runVars, lockVars>>

\* BoolOp::to_string of the tree
FilterToString ==
    /\ fpc = "tree"
    /\ ftext' = to_string(ftree)
    /\ fpc' = "text"
    /\ UNCHANGED <<ftree, fparsed, fops>>
    /\ UNCHANGED <<clipVars, smVars, tagVars, actVars, almVars, runVars, lockVars>>

\* parse_filter of the text
FilterParse ==
    /\ fpc = "text"
    /\ fparsed' = parse_filter(ftext)
    /\ fpc' = "parsed"
    /\ UNCHANGED <<ftree, ftext, fops>>
    /\ UNCHANGED <<clipVars, smVars, tagVars, actVars, almVars, runVars, lockVars>>

NextFilter ==
    \/ \E c \in Criteria : FilterCriterion(c)
    \/ FilterNot
    \/ \E op \in {"And", "Or"}, c \in Operands, left \in BOOLEAN : FilterBinary(op, c, left)
    \/ FilterToString
    \/ FilterParse

\* ------------------------- app_config.rs: StateMachineContext::run_all

\* a join that waits for every future and then returns the first error
join_all_results(mc) ==
    IF \E m \in Machines : mc[m].st = "running"
    THEN [mach |-> mc, pc |-> "join", result |-> None]
    ELSE IF \E m \in Machines : mc[m].st = "err"
    THEN [mach |-> mc, pc |-> "done",
          result |-> Err(CHOOSE m \in Machines : mc[m].st = "err" /\
                            \A k \in Machines : mc[k].st = "err" => m <= k)]
    ELSE [mach |-> mc, pc |-> "done", result |-> Ok]

\* one poll of futures::future::try_join_all(running), and the `?` of
\* run_all: the first error is returned and the other futures are dropped
try_join_all(mc) ==
    IF \E m \in Machines : mc[m].st = "err"
    THEN LET f == CHOOSE m \in Machines : mc[m].st = "err" /\
                        \A k \in Machines : mc[k].st = "err" => m <= k
         IN [mach |-> [m \in Machines |->
                        IF mc[m].st = "running" THEN [mc[m] EXCEPT !.st = "dropped"]
                        ELSE mc[m]],
             pc |-> "done", result |-> Err(f)]
    ELSE IF \A m \in Machines : mc[m].st = "ok"
    THEN [mach |-> mc, pc |-> "done", result |-> Ok]
    ELSE [mach |-> mc, pc |-> "join", result |-> None]

\* first poll of running_sm: run_all calls run() of every machine
RunAllStart ==
    /\ runAll.pc = "new"
    /\ mach' = [m \in Machines |-> [mach[m] EXCEPT !.st = "running"]]
    /\ runAll' = [runAll EXCEPT !.pc = "join"]
    /\ UNCHANGED <<clipVars, smVars, tagVars, actVars, almVars, parseVars, lockVars>>

\* the executor of machine m or its running action makes a step
MachineStep(m) ==
    /\ mach[m].st = "running"
    /\ mach[m].steps < MaxSteps
    /\ mach' = [mach EXCEPT ![m].steps = @ + 1]
    /\ UNCHANGED runAll
    /\ UNCHANGED <<clipVars, smVars, tagVars, actVars, almVars, parseVars, lockVars>>

\* run() of machine m returns Ok(()) or an error, and try_join_all is polled
MachineDone(m, ok) ==
    /\ mach[m].st = "running"
    /\ LET r == try_join_all([mach EXCEPT ![m].st = IF ok THEN "ok" ELSE "err"]) IN
       /\ mach' = r.mach
       /\ runAll' = [pc |-> r.pc, result |-> r.result]
    /\ UNCHANGED <<clipVars, smVars, tagVars, actVars, almVars, parseVars, lockVars>>

\* the running_sm branch of the select! of main: the loop ends (Ok) or main
\* returns (Err)
MainExit ==
    /\ runAll.pc = "done"
    /\ runAll' = [runAll EXCEPT !.pc = "exited"]
    /\ UNCHANGED mach
    /\ UNCHANGED <<clipVars, smVars, tagVars, actVars, almVars, parseVars, lockVars>>

NextRun ==
    \/ RunAllStart
    \/ \E m \in Machines : MachineStep(m)
    \/ \E m \in Machines, ok \in BOOLEAN : MachineDone(m, ok)
    \/ MainExit

\* ------------------------------------------- the mutexes (std::sync::Mutex)
\* StateMachine.current of machine m, AlarmContext.alarm_filters and
\* TagContext.tags.  A thread of control is the executor of a machine
\* (StateMachine::run, which also polls the machine's running action) or
\* the caller from outside (the ingress loop and whoever calls goto, stop,
\* ignore_matched_alarms, restore_ignored_alarms).  A script is the sequence
\* of lock() calls and guard drops that a piece of code makes before its
\* next suspension point.

SmLock(m) == <<"sm", m>>
AlarmLock == <<"alarm", 0>>
TagLock == <<"tag", 0>>
Lock(l) == <<"lock", l>>
Unlock(l) == <<"unlock", l>>

Outside == MaxLockMachines + 1
Threads == LockMachines \cup {Outside}

\* TagContext::tag_changed, wait_value: the tags are locked for the call
tag_script == <<Lock(TagLock), Unlock(TagLock)>>

\* AlarmFilterState::update_tags: two calls of TagContext::set_tag, each
\* of which calls tag_changed
update_tags_script == tag_script \o tag_script

\* AlarmContext::handle_notification, ignore_matched_alarms and
\* restore_ignored_alarms: the filters stay locked while update_alarm_counts
\* calls update_tags
alarm_script == <<Lock(AlarmLock)>> \o update_tags_script \o <<Unlock(AlarmLock)>>

\* AlarmContext::wait_alarm_filter, get_filter_count
alarm_read_script == <<Lock(AlarmLock), Unlock(AlarmLock)>>

\* StateMachine::goto and StateMachine::stop
goto_script(m) == <<Lock(SmLock(m)), Unlock(SmLock(m))>>

\* the block at the top of the loop of StateMachine::run: the machine is
\* locked while the action of the new state is run; run() of a
\* SetTagAction calls async_set_tag, run() of an AlarmFunctionAction calls
\* ignore_matched_alarms or restore_ignored_alarms, run() of the other
\* actions takes no lock
eval_scripts(m) ==
    { <<Lock(SmLock(m))>> \o inner \o <<Unlock(SmLock(m))>> :
        inner \in {<<>>, tag_script, alarm_script} }

\* a run that keeps the machine locked while it polls the running action
select_scripts_locked(m) ==
    { <<Lock(SmLock(m))>> \o s \o <<Unlock(SmLock(m))>> :
        s \in {goto_script(k) : k \in LockMachines} \cup {tag_script, alarm_read_script} }

\* the select of StateMachine::run polls the running action: the future of
\* a GotoAction calls goto of any machine, that of a WaitTagAction calls
\* wait_value, that of a WaitAlarmAction calls wait_alarm_filter
select_scripts(m) ==
    {goto_script(k) : k \in LockMachines} \cup {tag_script, alarm_read_script}

\* the calls from outside
outside_scripts ==
    {goto_script(k) : k \in LockMachines} \cup {tag_script, alarm_script}

\* the holder of a mutex, 0 when it is free
lock_holder(l) ==
    IF \E t \in Threads : \E i \in DOMAIN th[t].held : th[t].held[i] = l
    THEN CHOOSE t \in Threads : \E i \in DOMAIN th[t].held : th[t].held[i] = l
    ELSE 0

\* the executor of machine m enters the block at the top of its loop
ExecBlock(m, s) ==
    /\ th[m].phase = "top"
    /\ s \in eval_scripts(m)
    /\ th' = [th EXCEPT ![m] = [phase |-> "eval", script |-> s, held |-> @.held]]
    /\ UNCHANGED <<clipVars, smVars, tagVars, actVars, almVars, runVars, parseVars>>

\* the executor of machine m polls its running action in the select
ExecSelect(m, s) ==
    /\ th[m].phase = "select"
    /\ s \in select_scripts(m)
    /\ th' = [th EXCEPT ![m] = [phase |-> "poll", script |-> s, held |-> @.held]]
    /\ UNCHANGED <<clipVars, smVars, tagVars, actVars, almVars, runVars, parseVars>>

\* a call from outside begins
OutsideCall(s) ==
    /\ th[Outside].phase = "idle"
    /\ s \in outside_scripts
    /\ th' = [th EXCEPT ![Outside] = [phase |-> "call", script |-> s, held |-> @.held]]
    /\ UNCHANGED <<clipVars, smVars, tagVars, actVars, almVars, runVars, parseVars>>

\* the phase of a thread after the last step of its script
after_script(phase) ==
    CASE phase = "eval" -> "select"
      [] phase = "poll" -> "top"
      [] phase = "call" -> "idle"

\* Mutex::lock returns: the mutex was free
LockStep(t) ==
    /\ th[t].script # <<>>
    /\ Head(th[t].script)[1] = "lock"
    /\ lock_holder(Head(th[t].script)[2]) = 0
    /\ th' = [th EXCEPT ![t] = [phase |-> @.phase, script |-> Tail(@.script),
                                held |-> Append(@.held, Head(@.script)[2])]]
    /\ UNCHANGED <<clipVars, smVars, tagVars, actVars, almVars, runVars, parseVars>>

\* a MutexGuard is dropped
UnlockStep(t) ==
    /\ th[t].script # <<>>
    /\ Head(th[t].script)[1] = "unlock"
    /\ th' = [th EXCEPT ![t] =
                 [phase |-> IF Len(@.script) = 1 THEN after_script(@.phase) ELSE @.phase,
                  script |-> Tail(@.script),
                  held |-> SelectSeq(@.held, LAMBDA l : l # Head(th[t].script)[2])]]
    /\ UNCHANGED <<clipVars, smVars, tagVars, actVars, almVars, runVars, parseVars>>

NextLock ==
    \/ \E m \in LockMachines : \E s \in eval_scripts(m) : ExecBlock(m, s)
    \/ \E m \in LockMachines : \E s \in select_scripts(m) : ExecSelect(m, s)
    \/ \E s \in outside_scripts : OutsideCall(s)
    \/ \E t \in Threads : LockStep(t)
    \/ \E t \in Threads : UnlockStep(t)

\* ------------------------------------------------------ specifications

\* the state after construction: Scheduler::new, ClipPlayer::new and
\* build_output_stream, StateMachine::new, TagContext::new and add_tag
Init ==
    /\ queue = <<>>
    /\ notify = [i \in Plays |-> FALSE]
    /\ nextId = 1
    /\ ctl = [state |-> "Setup", seqno |-> 0, samples |-> 0, waker |-> NoPlay]
    /\ nextSeq = 1
    /\ curSeqno = 0
    /\ pos = 0
    /\ pc = [c \in Plays |-> "idle"]
    /\ tok = [c \in Plays |-> 0]
    /\ prio = [c \in Plays |-> 0]
    /\ tmo = [c \in Plays |-> FALSE]
    /\ clip = [c \in Plays |-> 0]
    /\ seq = [c \in Plays |-> 0]
    /\ woken = [c \in Plays |-> FALSE]
    /\ grant = [c \in Plays |-> "none"]
    /\ preempted = {}
    /\ lastDrop = "none"
    /\ sm = [active |-> None, restart |-> FALSE, changed |-> FALSE]
    /\ ex = [pc |-> "new", running_action |-> NoAction, running_state |-> None]
    /\ live = {}
    /\ nextInst = 1
    /\ limUsed = 0
    /\ nGoto = 0
    /\ dropped = NoAction
    /\ lastGoto = "none"
    /\ calls = <<>>
    /\ burst = NoBurst
    /\ handled = NoBurst
    /\ tag = [state |-> None, value |-> EmptyString, version |-> 0]
    /\ wait = [w \in Waiters |-> [pc |-> "none", value |-> None, seen |-> 0, result |-> None]]
    /\ callVer = [w \in Waiters |-> 0]
    /\ setReq = [r \in SetTags |-> [pc |-> "none", done |-> "none", result |-> "none"]]
    /\ egress = <<>>
    /\ handlers = <<>>
    /\ acked = {}
    /\ wtg = NewWaitTag
    /\ timedOut = {}
    /\ par = [pc |-> "new", child |-> NewChildren, result |-> None]
    /\ firstErr = 0
    /\ sqn = [pc |-> "new", child |-> NewChildren, result |-> None]
    /\ rep = [pc |-> "none", count |-> None, started |-> 0, calls |-> <<>>, result |-> "none"]
    /\ repUsed = 0
    /\ mach = [m \in Machines |-> [st |-> "new", steps |-> 0]]
    /\ runAll = [pc |-> "new", result |-> None]
    /\ flt = [matching |-> {}, ignore |-> {}, ignore_permanent |-> FALSE]
    /\ sent = 0
    /\ latest = [a \in AlarmIds |-> NoAlarm]
    /\ released = {}
    /\ lastOp = [op |-> "none", permanent |-> FALSE, tags |-> <<>>, state |-> 0]
    /\ wal = NewWaitAlarm("Inc")
    /\ ftree = <<>>
    /\ ftext = <<>>
    /\ fparsed = <<>>
    /\ fops = 0
    /\ fpc = "new"
    /\ th = [t \in Threads |->
               [phase |-> IF t = Outside THEN "idle" ELSE "top", script |-> <<>>,
                held |-> <<>>]]

SpecClip == Init /\ [][NextClip]_vars

\* the executor polls every woken task, the condition variable wakes
\* start_clip, the playback thread and its render callback keep running
FairClip ==
    /\ \A c \in Plays : WF_vars(PollAcquire(c))
    /\ \A c \in Plays : WF_vars(StartClipResume(c))
    /\ \A c \in Plays : WF_vars(PollFuture(c))
    /\ WF_vars(Render)
    /\ WF_vars(ThreadReady)

SpecClipFair == Init /\ [][NextClip]_vars /\ FairClip

SpecSM == Init /\ [][NextSM]_vars

SpecTag == Init /\ [][NextTag]_vars

SpecTagAdd == Init /\ [][NextTagAdd]_vars

SpecAct == Init /\ [][NextAct]_vars

SpecAlarm == Init /\ [][NextAlarm]_vars

SpecRun == Init /\ [][NextRun]_vars

SpecFilter == Init /\ [][NextFilter]_vars

SpecEffect == Init /\ [][NextEffect]_vars

SpecWaitTag == Init /\ [][NextWaitTag]_vars

SpecLock == Init /\ [][NextLock]_vars

\* ------------------------------------------------------------ claims

\* the completion futures whose poll returns Pending
PendingFutures == {c \in Plays : pc[c] = "playing" /\ FuturePending(ctl, seq[c])}

\* the token ids in a queue
Ids(q) == {q[i].id : i \in 1..Len(q)}

\* C1: at most one clip is rendered: the player enters Playing (a new
\* seqno) only from Ready, and at most one completion future, the one whose
\* seqno is playing, is pending.
C1_OneClip ==
    /\ [](Cardinality(PendingFutures) <= 1)
    /\ [][(ctl'.state = "Playing" /\ ~(ctl.state = "Playing" /\ ctl.seqno = ctl'.seqno))
            => ctl.state = "Ready"]_vars

\* a newer start_clip has superseded an older one whose future still exists
C1_Witness ==
    \E c, d \in Plays :
        /\ c # d
        /\ pc[c] = "playing" /\ FuturePending(ctl, seq[c])
        /\ pc[d] = "playing" /\ seq[d] # 0 /\ seq[d] < seq[c]

\* C2: the token returned by get_token / get_token_timeout is the active one
\* (index 0 of the queue) at the moment of return.
C2_GrantIsActive == \A c \in Plays : grant[c] # "stale"

C4_Insert ==
    [][ \A c \in Plays, p \in Prios, t \in BOOLEAN, len \in ClipLens :
            (Play(c, p, t, len) /\ queue # <<>>)
            => IF p > queue[1].priority
               THEN /\ queue'[1].id = tok'[c]
                    /\ Ids(queue') = (Ids(queue) \ {queue[1].id}) \cup {tok'[c]}
                    /\ notify'[queue[1].id]
               ELSE /\ queue'[1] = queue[1]
                    /\ Ids(queue') = Ids(queue) \cup {tok'[c]}
                    /\ find_id(queue', tok'[c]) > 1
                    /\ pc'[c] = "acquire"
      ]_vars

\* a token was pushed away and notified while a later token waits behind
\* the one that pushed it away
C4_Witness ==
    /\ Len(queue) >= 2
    /\ \E a \in Plays :
          /\ pc[a] = "playing"
          /\ is_released(queue, tok[a])
          /\ notify[tok[a]]
          /\ queue[1].priority > prio[a]

C7_GotoPrompt ==
    /\ []((ex.pc \in {"select", "wait"} /\ StateChanged(sm, ex)) => sm.changed)
    /\ [][ /\ \A i \in StateIdx :
               (GotoCall(i) \/ \E c \in BOOLEAN : SelActionGoto(i, c)) => StateChanged(sm', ex')
           /\ (ExecEvaluate /\ StateChanged(sm, ex)) => ex.running_action \notin live'
         ]_vars

\* a goto called by the running action itself has made run drop that action
C7_Witness ==
    /\ lastGoto = "action"
    /\ dropped # NoAction
    /\ ex.pc = "select"
    /\ ex.running_action.id = dropped.id + 1

\* C8: a future returned by wait_value before a tag_changed call sees that
\* change: once it has been polled it is ready (its receiver has an unseen
\* version), also when the change came before its first poll.
C8_SeesChange ==
    \A w \in Waiters :
        (wait[w].pc = "armed" /\ tag.version > callVer[w]) => has_changed(tag, wait[w].seen)

\* C9: a future returned by wait_value becomes ready only when a tag_changed
\* call has completed after wait_value was called.
C9_EdgeTriggered ==
    [][\A w \in Waiters :
          (wait'[w].pc = "ready" /\ wait[w].pc # "ready") => tag.version > callVer[w]]_vars

\* a future created after two changes has resolved with a later change
C9_Witness ==
    \E w \in Waiters :
        /\ wait[w].pc = "ready"
        /\ callVer[w] >= 2
        /\ tag.version > callVer[w]

\* C10: the future of a SetTag whose 500 ms timeout elapsed without
\* acknowledgment completes with Ok(()).
C10_TimeoutOk == \A r \in timedOut : setReq[r].result = "Ok"

\* C11: the future of ParallelAction::run returns Ok only if every child
\* returned Ok, and when a child returned an error it returns the error of
\* the child that failed first.
C11_ParallelResult ==
    par.pc = "done" =>
        /\ par.result = Ok => \A i \in Children : par.child[i] = "ok"
        /\ firstErr # 0 => par.result = Err(firstErr)

\* C12: once a child of a ParallelAction has failed no sibling is still
\* running: the futures of the siblings were dropped.
C12_SiblingsCancelled ==
    (\E i \in Children : par.child[i] = "err")
        => \A j \in Children : par.child[j] # "running"

\* C13: a child of a SequenceAction is started only after the child before
\* it completed with Ok; when a child fails the sequence returns the error
\* of that child and no later child is started; it returns Ok only after
\* every child completed with Ok.
C13_SequenceOrder ==
    /\ \A i \in Children :
          (i > 1 /\ sqn.child[i] # "idle") => sqn.child[i - 1] = "ok"
    /\ \A i \in Children :
          sqn.child[i] = "err" =>
              /\ sqn.pc = "done"
              /\ sqn.result = Err(i)
              /\ \A j \in Children : j > i => sqn.child[j] = "idle"
    /\ (sqn.pc = "done" /\ sqn.result = Ok) =>
          \A i \in Children : sqn.child[i] = "ok"

\* a sequence whose second child failed after the first completed with Ok
C13_Witness ==
    /\ sqn.pc = "done"
    /\ sqn.child[1] = "ok"
    /\ sqn.child[2] = "err"
    /\ sqn.result = Err(2)

\* the alarm ids whose most recent notification with state # 128 satisfies
\* the filter predicate
LatestMatching ==
    {a \in AlarmIds : latest[a] # NoAlarm /\ evaluate_filter(latest[a])}

\* C14: after any sequence of handle_notification calls the matching set of
\* the filter is exactly the set of alarm ids whose most recent notification
\* with state # 128 satisfies the filter predicate.
C14_MatchingIsLatest == flt.matching = LatestMatching

\* one alarm matched and then stopped matching while another one matches
C14_Witness ==
    /\ \E a \in AlarmIds : latest[a] # NoAlarm /\ ~evaluate_filter(latest[a])
    /\ flt.matching # {}
    /\ lastOp.op = "handle_notification"

\* C15: after every operation of the alarm dispatcher the value last sent on
\* the count channel of the filter is the size of matching \ ignore.
C15_SentIsCount == sent = Cardinality(flt.matching \ flt.ignore)

\* one alarm is ignored, a second one arrived afterwards and is counted
C15_Witness ==
    /\ Cardinality(flt.matching) = 2
    /\ Cardinality(flt.ignore) = 1
    /\ sent = 1

\* C16: while ignore_permanent is false the ignored set is a subset of the
\* matching set.
C16_IgnoredSubset == ~flt.ignore_permanent => flt.ignore \subseteq flt.matching

\* an ignored alarm stopped matching and left the ignored set, another one
\* is still ignored
C16_Witness ==
    /\ ~flt.ignore_permanent
    /\ released # {}
    /\ flt.ignore # {}

C19_PermanentFlag ==
    (lastOp.op = "IgnoreAlarms" /\ lastOp.permanent) => flt.ignore_permanent

\* C20: an evaluation of the executor calls count() of the rate limiter
\* exactly once when the started state changed (active differs from the
\* last started state, or restart is set) and not at all otherwise; when
\* count() returns false run returns the runaway error and no action of the
\* new state is started.
C20_CountOncePerChange ==
    [][ExecEvaluate =>
          /\ Len(calls') = (IF StateChanged(sm, ex) THEN 1 ELSE 0)
          /\ calls' = <<FALSE>> =>
                /\ ex'.pc = "err"
                /\ nextInst' = nextInst
                /\ live' = {}
                /\ ex'.running_action = NoAction
                /\ ex'.running_state = ex.running_state
          /\ calls' = <<TRUE>> => ex'.pc # "err"
      ]_vars

\* the limiter has rejected the change to another state: run has returned
\* the runaway error
C20_Witness ==
    /\ ex.pc = "err"
    /\ calls = <<FALSE>>
    /\ ex.running_state # sm.active
    /\ live = {}

\* C21: a RepeatAction without count calls count() of its limiter once
\* before every run of the body, and the first false answer ends it with the
\* runaway error without another run of the body; a RepeatAction with count
\* Some(n) never calls the limiter, never runs the body more than n times and
\* returns Ok(()) after exactly n runs.
C21_RepeatLimit ==
    /\ rep.count = None =>
          /\ Len(rep.calls) = rep.started + (IF rep.result = "Runaway" THEN 1 ELSE 0)
          /\ \A i \in 1..rep.started : rep.calls[i]
          /\ rep.result = "Runaway" => (rep.pc = "done" /\ ~rep.calls[Len(rep.calls)])
          /\ rep.result # "Ok"
    /\ rep.count # None =>
          /\ rep.calls = <<>>
          /\ rep.started <= rep.count
          /\ rep.result = "Ok" => rep.started = rep.count
          /\ rep.result # "Runaway"

\* an unbounded repeat was stopped by its limiter after LimitN runs of the body
C21_Witness ==
    /\ rep.count = None
    /\ rep.result = "Runaway"
    /\ rep.started >= LimitN

\* C22: when run() of a state machine returns an error run_all returns that
\* error and the executors of the other machines are dropped: no machine is
\* running any more, and after run_all has returned no machine makes a step.
C22_RunAllFails ==
    /\ [](\A m \in Machines :
            mach[m].st = "err" =>
                /\ runAll.pc \in {"done", "exited"}
                /\ runAll.result = Err(m)
                /\ \A k \in Machines : mach[k].st # "running")
    /\ [][runAll.pc \in {"done", "exited"} => mach' = mach]_vars

\* the second machine failed while the first was in the middle of its
\* action and after the third had stopped
C22_Witness ==
    /\ runAll.result = Err(2)
    /\ mach[1].st = "dropped"
    /\ mach[1].steps > 0
    /\ mach[3].st = "ok"

\* C23 as stated: the evaluation of the executor that finds a running
\* machine stopped drops the running action and run returns Ok(()).
C23_StopReturnsOk ==
    [][(ExecEvaluate /\ sm.active = None /\ ex.running_state # None)
          => (ex'.pc = "ok" /\ live' = {})]_vars

\* C23 amended: a stop of a running machine is never without its
\* notification while run is suspended, and the evaluation that finds the
\* machine stopped drops the running action and ends the loop: run returns
\* Ok(()) when the rate limiter accepts the change and the runaway error
\* when it rejects it.
C23_StopEndsRun ==
    /\ []((ex.pc \in {"select", "wait"} /\ sm.active = None /\ ex.running_state # None)
            => sm.changed)
    /\ [][(ExecEvaluate /\ sm.active = None /\ ex.running_state # None)
            => /\ live' = {}
               /\ ex'.running_action = NoAction
               /\ Len(calls') = 1
               /\ ex'.pc = (IF calls'[1] THEN "ok" ELSE "err")]_vars

\* stop was called while an action was running: the action was dropped and
\* run has returned Ok(())
C23_Witness ==
    /\ ex.pc = "ok"
    /\ lastGoto = "stop"
    /\ dropped # NoAction
    /\ live = {}
    /\ calls = <<TRUE>>

\* the call that holds the token at index i of the queue
Holder(i) == Owner(queue[i].id)

\* C24: the queue is ordered by priority and, within a priority, by
\* acquisition order; a call whose token is behind a token of the same
\* priority is still waiting; an acquire with the priority of the head
\* leaves the head in place and removes and wakes nobody.
C24_FifoWithinPriority ==
    /\ [](\A i, j \in 1..Len(queue) :
            i < j => \/ queue[i].priority > queue[j].priority
                     \/ /\ queue[i].priority = queue[j].priority
                        /\ queue[i].id < queue[j].id
                        /\ pc[Holder(j)] = "acquire")
    /\ [][\A c \in Plays, p \in Prios, t \in BOOLEAN, len \in ClipLens :
            (Play(c, p, t, len) /\ queue # <<>> /\ p = queue[1].priority)
            => /\ queue'[1] = queue[1]
               /\ Len(queue') = Len(queue) + 1
               /\ queue = RemoveAt(queue', find_id(queue', nextId))
               /\ \A i \in 1..Len(queue') :
                     queue'[i].id = nextId =>
                        \A k \in 1..Len(queue') :
                           (k # i /\ queue'[k].priority = p) => k < i
               /\ \A d \in Plays \ {c} :
                     /\ pc'[d] = pc[d]
                     /\ tok[d] # 0 => notify'[tok[d]] = notify[tok[d]]
          ]_vars

\* of two calls with the same priority the one that acquired first was
\* granted the player while the other one is still waiting behind it
C24_Witness ==
    \E x, y \in Plays :
        /\ prio[x] = prio[y]
        /\ tok[x] < tok[y]
        /\ tok[x] # 0
        /\ grant[x] = "active"
        /\ seq[x] >= 2
        /\ pc[y] = "acquire"
        /\ find_id(queue, tok[x]) = 1
        /\ find_id(queue, tok[y]) = 2

\* C25: when the deadline of get_token_timeout expires while the token is
\* waiting, the call returns (play returns Ok(())), its token leaves the
\* queue and nothing else changes: the other tokens keep their order, no
\* Notify of another token fires and no other call moves.
C25_TimeoutWithdraws ==
    [][\A c \in Plays :
          (AcquireTimeout(c) /\ is_waiting(queue, tok[c]))
          => /\ queue' = RemoveAt(queue, find_id(queue, tok[c]))
             /\ pc'[c] = "done"
             /\ \A d \in Plays \ {c} :
                   /\ pc'[d] = pc[d]
                   /\ tok'[d] = tok[d]
                   /\ tok[d] # 0 => notify'[tok[d]] = notify[tok[d]]
             /\ ctl' = ctl
      ]_vars

\* a call with a deadline gave up while two other calls were in the queue
C25_Witness ==
    /\ \E c \in Plays : pc[c] = "done" /\ grant[c] = "none"
    /\ Len(queue) = 2
    /\ \E d \in Plays : pc[d] = "acquire" /\ ~notify[tok[d]]
    /\ nextId = MaxPlays + 1

\* C27: when ClipQueue::play returns or its future is dropped at a
\* suspension point its token is not in the queue afterwards (every token of
\* the queue belongs to a call that is still in progress), and dropping the
\* call whose clip is playing moves the player to Cancel.
C27_PlayCleansUp ==
    /\ [](\A i \in 1..Len(queue) :
            \E c \in Plays : tok[c] = queue[i].id /\ pc[c] \in {"acquire", "start", "playing"})
    /\ [][\A c \in Plays :
            /\ (pc[c] # "done" /\ pc'[c] = "done")
                  => \A i \in 1..Len(queue') : queue'[i].id # tok[c]
            /\ (DropPlay(c) /\ pc[c] = "playing" /\ FuturePending(ctl, seq[c]))
                  => ctl'.state = "Cancel"
          ]_vars

\* a call was dropped while its clip was playing: the player was sent
\* Cancel and the queue is empty
C27_Witness ==
    /\ ctl.state = "Cancel"
    /\ queue = <<>>
    /\ \E c \in Plays : pc[c] = "done"
    /\ \A c \in Plays : pc[c] \in {"idle", "done"}

\* C26: every acquire that is suspended eventually returns; a waiting token
\* at index 0 of the queue has its Notify fired; a call that finishes while
\* its token is the head fires the Notify of the new head.
C26_AcquireReturns ==
    /\ \A c \in Plays : (pc[c] = "acquire") ~> (pc[c] # "acquire")
    /\ [](\A c \in Plays :
            (pc[c] = "acquire" /\ find_id(queue, tok[c]) = 1) => notify[tok[c]])
    /\ [][\A c \in Plays :
            (pc[c] # "done" /\ pc'[c] = "done" /\ Len(queue) >= 2 /\ queue[1].id = tok[c])
            => (queue'[1] = queue[2] /\ notify'[queue[2].id])
          ]_vars

\* a call that waited without a deadline behind two others holds the
\* player after both of them finished
C26_Witness ==
    \E c \in Plays :
        /\ tok[c] = MaxPlays
        /\ ~tmo[c]
        /\ grant[c] = "active"
        /\ seq[c] = MaxPlays
        /\ Len(queue) = 1 /\ queue[1].id = tok[c]
        /\ \A d \in Plays \ {c} : pc[d] = "done"

\* C28: a completion future whose clip is no longer the playing one has
\* been woken, and its next poll completes the call; a pending future has
\* its waker registered or is about to be polled; every call that plays a
\* clip eventually completes.
C28_FutureResolves ==
    /\ \A c \in Plays : (pc[c] = "playing") ~> (pc[c] = "done")
    /\ [](\A c \in Plays : pc[c] = "playing" =>
            /\ ~FuturePending(ctl, seq[c]) => woken[c]
            /\ FuturePending(ctl, seq[c]) => (ctl.waker = c \/ woken[c]))
    /\ [][\A c \in Plays :
            (PollFuture(c) /\ ~FuturePending(ctl, seq[c])) => pc'[c] = "done"]_vars

\* a completion future was superseded by a newer start_clip and woken
\* while the newer clip is playing
C28_Witness ==
    \E c, d \in Plays :
        /\ pc[c] = "playing" /\ pc[d] = "playing"
        /\ seq[c] < seq[d]
        /\ ~FuturePending(ctl, seq[c])
        /\ FuturePending(ctl, seq[d])
        /\ woken[c]

\* C29: a WaitAlarmAction with condition Inc or Dec does not complete on
\* its first observation; it completes only on a value delivered by the
\* channel that is strictly greater (Inc) or strictly smaller (Dec) than
\* the count it observed immediately before.
C29_IncDecNeedsChange ==
    (wal.pc = "done" /\ wal.cond \in {"Inc", "Dec"}) =>
        /\ Len(wal.obs) = 2
        /\ wal.via = "broadcast"
        /\ wal.cond = "Inc" => wal.obs[2] > wal.obs[1]
        /\ wal.cond = "Dec" => wal.obs[2] < wal.obs[1]

\* a Dec action completed on a decrease that followed an increase it had
\* observed without completing
C29_Witness ==
    /\ wal.pc = "done" /\ wal.cond = "Dec"
    /\ wal.obs = <<MaxAlarms, MaxAlarms - 1>>

\* C30: add_tag(name, None) for the registered name leaves the dispatcher
\* as it was: the stored value is kept and the futures already returned by
\* wait_value are untouched, so that they resolve with the next tag_changed.
C30_AddTagIdempotent ==
    [][AddTag(None) => (tag'.state = tag.state /\ wait' = wait)]_vars

\* C31: handle_notification for an alarm whose state is 128 leaves the
\* matching set, the ignored set and the reported count of the filter
\* unchanged, sends no count to the observers and writes no tag.
C31_VendorStateIgnored ==
    [][\A new_alarm \in Alarms :
          (HandleNotification(new_alarm) /\ new_alarm.state = 128)
          => /\ flt' = flt
             /\ sent' = sent
             /\ matching_count(flt') = matching_count(flt)
             /\ wal' = wal
             /\ lastOp'.tags = <<>>
             /\ tag' = tag]_vars

\* a notification with state 128 for an alarm that matches and is ignored,
\* with priority outside the filter, while a WaitAlarmAction waits
C31_Witness ==
    /\ lastOp.op = "handle_notification"
    /\ lastOp.state = 128
    /\ flt.matching # {}
    /\ flt.ignore # {}
    /\ wal.pc = "wait" /\ ~wal.unseen

\* C32: parse_filter applied to the rendered text of a filter tree returns
\* the tree, also when a string value contains a single quote.
C32_ParseRendered == fpc = "parsed" => fparsed = <<"Ok", ftree>>

\* C33: dropping the completion future of a clip that is not the playing
\* one (it finished or was superseded) leaves the state of the player
\* unchanged, whether the call is dropped or returns after Ready(Ok); only
\* the drop of the future of the playing clip posts Cancel.
C33_DropLeavesPlayer ==
    [][\A c \in Plays :
          /\ (DropPlay(c) /\ pc[c] = "playing" /\ ~FuturePending(ctl, seq[c]))
                => (ctl' = ctl /\ curSeqno' = curSeqno /\ pos' = pos)
          /\ (PollFuture(c) /\ ~FuturePending(ctl, seq[c]))
                => (ctl' = ctl /\ curSeqno' = curSeqno /\ pos' = pos)
          /\ (DropPlay(c) /\ pc[c] = "playing" /\ FuturePending(ctl, seq[c]))
                => ctl'.state = "Cancel"
          /\ (DropPlay(c) /\ pc[c] = "acquire") => ctl' = ctl
      ]_vars

\* the future of a superseded clip was dropped while the clip that
\* superseded it is playing
C33_Witness ==
    /\ lastDrop = "other"
    /\ \E d \in Plays : pc[d] = "playing" /\ FuturePending(ctl, seq[d]) /\ seq[d] >= 2

\* C34: for every token a call holds, none of the three predicates fails
\* and exactly one of is_active, is_waiting, is_released holds.
C34_OnePredicate ==
    \A c \in Plays :
        tok[c] # 0 =>
            /\ ~is_active_panics(queue)
            /\ Cardinality({p \in {"active", "waiting", "released"} :
                    \/ p = "active" /\ is_active(queue, tok[c])
                    \/ p = "waiting" /\ is_waiting(queue, tok[c])
                    \/ p = "released" /\ is_released(queue, tok[c])}) = 1

\* C35: when a call ends whose token is no longer in the queue (it was
\* preempted), the drop of the token leaves the queue unchanged and fires
\* no Notify: the other calls and their permits stay as they are.
C35_AbsentReleaseIsNoOp ==
    [][\A c \in Plays :
          (pc[c] \in {"acquire", "playing"} /\ pc'[c] = "done"
             /\ is_released(queue, tok[c]))
          => /\ queue' = queue
             /\ \A d \in Plays \ {c} :
                   /\ pc'[d] = pc[d]
                   /\ tok[d] # 0 => notify'[tok[d]] = notify[tok[d]]
      ]_vars

\* a preempted call has just ended; the call that preempted it holds the
\* head of the queue, plays its clip and was not notified
C35_Witness ==
    /\ lastDrop = "other"
    /\ Len(queue) = 1
    /\ \E d \in Plays :
          /\ queue[1].id = tok[d]
          /\ grant[d] = "active"
          /\ pc[d] = "playing"
          /\ FuturePending(ctl, seq[d])
          /\ seq[d] >= 2
          /\ ~notify[tok[d]]

C37_AckCompletesAll ==
    /\ [][NotifyWriteTag =>
            /\ handlers' = <<>>
            /\ \A r \in Range(handlers) :
                  /\ setReq[r].done = "open" => setReq'[r].done = "sent"
                  /\ setReq[r].done # "open" => setReq'[r].done = setReq[r].done
            /\ \A r \in SetTags \ Range(handlers) : setReq'[r] = setReq[r]]_vars
    /\ [][\A r \in SetTags :
            (setReq[r].done # "sent" /\ setReq'[r].done = "sent")
            => (NotifyWriteTag /\ r \in Range(handlers) /\ r \notin Range(handlers'))]_vars
    /\ [][\A r \in SetTags : setReq[r].done = "sent" => r \notin Range(handlers')]_vars
    /\ [][\A i, j \in DOMAIN handlers' : handlers'[i] = handlers'[j] => i = j]_vars

\* one NotifyWriteTag message removed the handlers of two requests and both
\* requests wait with the acknowledgment sent
C37_Witness ==
    /\ Cardinality(acked) >= 2
    /\ handlers = <<>>
    /\ \A r \in acked : setReq[r].pc = "pending" /\ setReq[r].done = "sent"

\* C38: SetTagAction and AlarmFunctionAction perform their effect inside
\* run(): when run returns, the tag value has been broadcast and the request
\* is in the egress queue, or the alarms have been ignored or restored;
\* dropping the returned future unpolled takes nothing back, and a queued
\* request leaves the egress queue only by being written to the pipe.
C38_EffectInsideRun ==
    /\ [][\A r \in SetTags, v \in TagVals :
            SetTag(r, v) => /\ tag'.value = v
                            /\ tag'.version = tag.version + 1
                            /\ egress' = Append(egress, r)]_vars
    /\ [][\A r \in SetTags :
            SetTagDrop(r) => /\ tag' = tag
                             /\ egress' = egress
                             /\ handlers' = handlers
                             /\ r \in Range(egress) \/ r \in Range(handlers) \/ r \in acked
                                   \/ setReq[r].done = "sent"]_vars
    /\ [][\A r \in SetTags :
            (r \in Range(egress) /\ r \notin Range(egress')) => r \in Range(handlers')]_vars
    /\ [][\A permanent \in BOOLEAN :
            IgnoreAlarmsRun(permanent) => flt'.ignore = flt.matching]_vars
    /\ [][RestoreAlarmsRun => flt'.ignore = {}]_vars
    /\ [][AlarmFutDrop =>
            /\ flt' = flt /\ sent' = sent /\ wal' = wal
            /\ lastOp.op = "IgnoreAlarms" =>
                  (flt.ignore = flt.matching /\ sent = matching_count(flt))
            /\ lastOp.op = "RestoreAlarms" => flt.ignore = {}]_vars

\* the future of a SetTagAction was dropped while its request was still in
\* the egress queue, the request was then written to the pipe, and the
\* future of an IgnoreAlarms action that ignored an alarm was dropped unpolled
C38_Witness ==
    /\ \E r \in SetTags :
          /\ setReq[r].pc = "dropped"
          /\ r \in Range(handlers)
          /\ tag.version >= 1
    /\ lastOp.op = "dropped IgnoreAlarms"
    /\ flt.ignore # {}

\* C39: a WaitTagAction with condition Changed never completes on its
\* first check, and when the value of the tag is unknown at the start it
\* does not complete on the first broadcast either: it completes only on a
\* value delivered by the channel that differs from a known value the
\* action observed before.
C39_ChangedNeedsKnownValue ==
    wtg.pc = "done" =>
        /\ wtg.via = "broadcast"
        /\ wtg.checks >= 2
        /\ Len(wtg.obs) = 2
        /\ wtg.obs[1] # None
        /\ wtg.obs[2] # wtg.obs[1]
        /\ wtg.start = None => wtg.casts >= 2

\* the action started while the value of the tag was unknown, did not
\* complete on the first broadcast and completed on the second one
C39_Witness ==
    /\ wtg.pc = "done"
    /\ wtg.start = None
    /\ wtg.casts = 2
    /\ wtg.obs = <<1, 2>>

\* the rank of a mutex in the nesting order
LockRank(l) == CASE l[1] = "sm" -> 1 [] l[1] = "alarm" -> 2 [] l[1] = "tag" -> 3

\* thread t is inside Mutex::lock of a mutex that is held
InLock(t) ==
    /\ th[t].script # <<>>
    /\ Head(th[t].script)[1] = "lock"
    /\ lock_holder(Head(th[t].script)[2]) # 0

\* following the holders from t, a thread that can take a step is reached
RECURSIVE Unblocks(_, _)
Unblocks(t, n) ==
    IF ~InLock(t) THEN TRUE
    ELSE IF n = 0 THEN FALSE
    ELSE Unblocks(lock_holder(Head(th[t].script)[2]), n - 1)

\* C40: no interleaving of executors, goto and stop calls, tag_changed,
\* handle_notification and ignore/restore calls deadlocks: every thread
\* that waits for a mutex waits for a thread that can run; mutexes are
\* nested only in the order state machine, alarm filters, tags; no mutex is
\* held at a suspension point, so the goto of a machine's own running
\* action finds the machine's mutex released by its executor.
C40_NoDeadlock ==
    /\ \A t \in Threads : Unblocks(t, Cardinality(Threads))
    /\ \A t \in Threads : \A i, j \in DOMAIN th[t].held :
          i < j => LockRank(th[t].held[i]) < LockRank(th[t].held[j])
    /\ \A t \in Threads : th[t].script = <<>> => th[t].held = <<>>
    /\ \A t \in Threads :
          InLock(t) => lock_holder(Head(th[t].script)[2]) # t

\* the running action of machine 1 calls goto of machine 1 and waits for
\* the mutex, which the caller from outside holds, while the executor of
\* machine 2 holds its machine and the alarm filters and waits for the tags
C40_Witness ==
    /\ th[1].phase = "poll"
    /\ th[1].script = goto_script(1)
    /\ lock_holder(SmLock(1)) = Outside
    /\ th[2].held = <<SmLock(2), AlarmLock>>
    /\ InLock(1)

====
